---- MODULE Spec2Model ----
(***************************************************************************)
(* The sitemap registry of the SEO core (sitemap.js): the static and the   *)
(* dynamic page collections of SITE_STRUCTURE, the two operations that     *)
(* mutate the dynamic collection (addPageToSitemap, removePageFromSitemap) *)
(* and the read operations over both (validateSitemap,                     *)
(* generateSitemapXML, getSitemapStats), under the specification Spec.     *)
(*                                                                         *)
(* The document side of the SEO core has a specification each: MetaSpec    *)
(* for the meta tag manager (updateMetaTags, getPageSEOConfig), SchemaSpec *)
(* for the schema manager (updatePageSchemas, validateSchema) and SeoSpec  *)
(* for the orchestrator (updatePageSEO with its history update and its     *)
(* page-view analytics).  They act on the head of the document, the        *)
(* location, the session history and the session storage.  HealthSpec      *)
(* reads live documents (getSEOHealth, validatePageSEO), TrackSpec fills   *)
(* the stored page views past their limit (trackPageView), and PagesSpec   *)
(* changes between the six configured pages.                               *)
(*                                                                         *)
(* JavaScript values are tagged records: [t |-> "undefined"],              *)
(* [t |-> "null"], [t |-> "string", s |-> <<characters>>] and              *)
(* [t |-> "number", n |-> hundredths].  A string is the sequence of its    *)
(* characters, so that startsWith, the lastmod pattern and the template    *)
(* literals are computed on the characters.  Priorities lie on a 1/100     *)
(* grid: the number 0.5 is n = 50, 1.01 is n = 101, -0.1 is n = -10.       *)
(***************************************************************************)
EXTENDS Integers, Sequences, FiniteSets, TLC

VARIABLES SITE_STRUCTURE, lastCall, lastResult,
          document, location, history, sessionStorage

\* The browser's side of the state: the document (title and head), the
\* location, the session history and the session storage.
browserVars == <<document, location, history, sessionStorage>>

vars == <<SITE_STRUCTURE, lastCall, lastResult, document, location, history, sessionStorage>>

(* ------------------------------ bounds -------------------------------- *)

\* At most this many entries are registered in the dynamic collection.
MaxDynamic == 2

(* --------------------------- JavaScript values ------------------------ *)

Undefined == [t |-> "undefined"]

Null == [t |-> "null"]

Str(chars) == [t |-> "string", s |-> chars]

Num(hundredths) == [t |-> "number", n |-> hundredths]

Bool(b) == [t |-> "boolean", b |-> b]

Nullish(v) == v = Undefined \/ v = Null

\* ToBoolean: undefined, null, '' and 0 are falsy.
Truthy(v) ==
    CASE v.t = "undefined" -> FALSE
      [] v.t = "null" -> FALSE
      [] v.t = "string" -> Len(v.s) > 0
      [] v.t = "number" -> v.n # 0
      [] OTHER -> TRUE

\* a || b
OrElse(a, b) == IF Truthy(a) THEN a ELSE b

Digit(d) == <<"0", "1", "2", "3", "4", "5", "6", "7", "8", "9">>[d + 1]

Digits == {Digit(d) : d \in 0..9}

RECURSIVE NatToChars(_)
NatToChars(k) == IF k < 10 THEN <<Digit(k)>> ELSE NatToChars(k \div 10) \o <<Digit(k % 10)>>

\* Number.prototype.toString of a number on the 1/100 grid: 100 is "1",
\* 50 is "0.5", 101 is "1.01", -10 is "-0.1".
NumberToChars(h) ==
    LET a == IF h < 0 THEN 0 - h ELSE h
        frac == a % 100
        sign == IF h < 0 THEN <<"-">> ELSE <<>>
        fracChars == IF frac = 0 THEN <<>>
                     ELSE IF frac % 10 = 0 THEN <<".", Digit(frac \div 10)>>
                     ELSE <<".", Digit(frac \div 10), Digit(frac % 10)>>
    IN  sign \o NatToChars(a \div 100) \o fracChars

\* ToString, as a template literal `${v}` applies it.
ToChars(v) ==
    CASE v.t = "string" -> v.s
      [] v.t = "number" -> NumberToChars(v.n)
      [] v.t = "null" -> <<"n", "u", "l", "l">>
      [] OTHER -> <<"u", "n", "d", "e", "f", "i", "n", "e", "d">>

(* ------------------------------ Result -------------------------------- *)

\* Result.fromTry(f): f's return value as a Success, what f throws as an Error.
Success(value) == [type |-> "Success", value |-> value]

Error(message) == [type |-> "Error", error |-> message]

(* --------------------------- configuration ---------------------------- *)

\* SEO_CONFIG.siteUrl
siteUrl == <<"h", "t", "t", "p", "s", ":", "/", "/", "c", "r", "y", "p", "t", "o", "v", "e", "r", "s", "u", "s", ".", "i", "o">>

UrlHome == <<"/">>
UrlServices == <<"/", "s", "e", "r", "v", "i", "c", "e", "s">>
UrlAbout == <<"/", "a", "b", "o", "u", "t">>
UrlContact == <<"/", "c", "o", "n", "t", "a", "c", "t">>
UrlFaqs == <<"/", "f", "a", "q", "s">>
UrlMission == <<"/", "m", "i", "s", "s", "i", "o", "n">>

Always == <<"a", "l", "w", "a", "y", "s">>
Hourly == <<"h", "o", "u", "r", "l", "y">>
Daily == <<"d", "a", "i", "l", "y">>
Weekly == <<"w", "e", "e", "k", "l", "y">>
Monthly == <<"m", "o", "n", "t", "h", "l", "y">>
Yearly == <<"y", "e", "a", "r", "l", "y">>
Never == <<"n", "e", "v", "e", "r">>

\* new Date().toISOString().split('T')[0]: the day the module is loaded and
\* the calls are made, as YYYY-MM-DD.
TodayISO == <<"2", "0", "2", "6", "-", "1", "1", "-", "0", "4">>

Page(url, priority, changefreq, lastmod) ==
    [url |-> url, priority |-> priority, changefreq |-> changefreq, lastmod |-> lastmod]

\* SITE_STRUCTURE.pages: the six static entries.
StaticPages ==
    << Page(Str(UrlHome), Num(100), Str(Daily), Str(TodayISO)),
       Page(Str(UrlServices), Num(90), Str(Weekly), Str(TodayISO)),
       Page(Str(UrlAbout), Num(80), Str(Monthly), Str(TodayISO)),
       Page(Str(UrlContact), Num(80), Str(Monthly), Str(TodayISO)),
       Page(Str(UrlFaqs), Num(70), Str(Weekly), Str(TodayISO)),
       Page(Str(UrlMission), Num(60), Str(Monthly), Str(TodayISO)) >>

(* ------------------------------ inputs -------------------------------- *)

UrlBlogX == <<"/", "b", "l", "o", "g", "/", "x">>
UrlBlogY == <<"b", "l", "o", "g", "/", "y">>
Biweekly == <<"b", "i", "w", "e", "e", "k", "l", "y">>
Date2024 == <<"2", "0", "2", "4", "-", "0", "1", "-", "0", "1">>
DateSlashed == <<"0", "1", "/", "0", "1", "/", "2", "0", "2", "4">>

\* The urls a caller passes: absent ones, a static url, a new url and a url
\* without its leading slash.
AbsentUrls == {Undefined, Null, Str(<<>>)}

PresentUrls == {Str(UrlServices), Str(UrlBlogX), Str(UrlBlogY)}

\* 0, 1.0, 1.01 and -0.1, or no priority.
Priorities == {Undefined, Num(0), Num(100), Num(101), Num(0 - 10)}

ChangeFreqs == {Undefined, Str(<<>>), Str(Weekly), Str(Biweekly)}

LastMods == {Undefined, Str(Date2024), Str(DateSlashed)}

\* A valid entry's fields: priority 1.0, 'weekly', '2024-01-01'.
ValidFields == [priority |-> Num(100), changefreq |-> Str(Weekly), lastmod |-> Str(Date2024)]

\* The fields a caller passes with a url: the valid ones with at most one of
\* them replaced, or none of the three given.
FieldChoices ==
    {[ValidFields EXCEPT !.priority = p] : p \in Priorities}
    \cup {[ValidFields EXCEPT !.changefreq = c] : c \in ChangeFreqs}
    \cup {[ValidFields EXCEPT !.lastmod = l] : l \in LastMods}
    \cup {[priority |-> Undefined, changefreq |-> Undefined, lastmod |-> Undefined]}

\* The fields passed with the static url and with the url that lacks its
\* slash: the valid ones, none, and the valid ones with a malformed lastmod.
FewFieldChoices ==
    {ValidFields,
     [ValidFields EXCEPT !.lastmod = Str(DateSlashed)],
     [priority |-> Undefined, changefreq |-> Undefined, lastmod |-> Undefined]}

\* The arguments of addPageToSitemap: '/blog/x' with every field choice,
\* the two other present urls with the few, an object whose url is absent,
\* and no object at all.
PageInfos ==
    {Page(Str(UrlBlogX), f.priority, f.changefreq, f.lastmod) : f \in FieldChoices}
    \cup {Page(u, f.priority, f.changefreq, f.lastmod) :
              u \in PresentUrls \ {Str(UrlBlogX)}, f \in FewFieldChoices}
    \cup {Page(u, Num(100), Str(Weekly), Str(Date2024)) : u \in AbsentUrls}
    \cup {Undefined}

\* The arguments of removePageFromSitemap.
RemoveUrls == PresentUrls \cup {Str(UrlAbout), Undefined}

(* ----------------------------- operations ----------------------------- *)

\* Array.prototype.findIndex(page => page.url === url): the first index
\* (from 0) of an entry with that url, -1 when there is none.
FindIndexByUrl(pagesSeq, url) ==
    LET hits == {i \in 1..Len(pagesSeq) : pagesSeq[i].url = url}
    IN  IF hits = {} THEN 0 - 1
        ELSE (CHOOSE i \in hits : \A j \in hits : i <= j) - 1

\* splice(index, 1): the array without the element at index (from 0).
Splice1(s, index) == SubSeq(s, 1, index) \o SubSeq(s, index + 2, Len(s))

\* Faulty variant (C28): an empty url is accepted (pageInfo.url == null).
UrlMissing_EmptyAllowed(pageInfo) == Nullish(pageInfo.url)

\* Faulty variant (C3): only an undefined url is refused (pageInfo.url === undefined).
UrlMissing_UndefinedOnly(pageInfo) == pageInfo.url = Undefined

\* !pageInfo.url
UrlMissing(pageInfo) == ~Truthy(pageInfo.url)

\* The entry addPageToSitemap stores: the url as given, the other fields as
\* given or, when falsy, their defaults.
newPageOf(pageInfo) ==
    Page(pageInfo.url,
         OrElse(pageInfo.priority, Num(50)),
         OrElse(pageInfo.changefreq, Str(Monthly)),
         OrElse(pageInfo.lastmod, Str(TodayISO)))

\* Faulty variant (C5): the existing entry is looked up in the static entries too,
\* and replaced where it is found.
Upsert_StaticToo(S, newPage) ==
    LET staticIndex == FindIndexByUrl(S.pages, newPage.url)
        existingIndex == FindIndexByUrl(S.dynamicPages, newPage.url)
    IN  IF staticIndex >= 0
        THEN [S EXCEPT !.pages[staticIndex + 1] = newPage]
        ELSE IF existingIndex >= 0
        THEN [S EXCEPT !.dynamicPages[existingIndex + 1] = newPage]
        ELSE [S EXCEPT !.dynamicPages = Append(@, newPage)]

\* Faulty variant (C10): an existing entry is removed and the new one pushed.
Upsert_MoveToEnd(S, newPage) ==
    LET existingIndex == FindIndexByUrl(S.dynamicPages, newPage.url)
    IN  IF existingIndex >= 0
        THEN [S EXCEPT !.dynamicPages = Append(Splice1(@, existingIndex), newPage)]
        ELSE [S EXCEPT !.dynamicPages = Append(@, newPage)]

\* The registry after newPage replaced the dynamic entry with its url, or
\* was pushed when there is none.
Upsert(S, newPage) ==
    LET existingIndex == FindIndexByUrl(S.dynamicPages, newPage.url)
    IN  IF existingIndex >= 0
        THEN [S EXCEPT !.dynamicPages[existingIndex + 1] = newPage]
        ELSE [S EXCEPT !.dynamicPages = Append(@, newPage)]

\* addPageToSitemap(pageInfo): the registry after the call and the Result.
\* Reading pageInfo.url of undefined or null throws a TypeError.
addPageToSitemap(S, pageInfo) ==
    IF Nullish(pageInfo)
    THEN [S |-> S, result |-> Error("TypeError")]
    ELSE IF UrlMissing(pageInfo)
    THEN [S |-> S, result |-> Error("Page URL is required")]
    ELSE [S |-> Upsert(S, newPageOf(pageInfo)),
          result |-> Success(newPageOf(pageInfo))]

\* Faulty variant (C4): the last dynamic entry is removed (pop) when url is found.
removePageFromSitemap_Pop(S, url) ==
    LET index == FindIndexByUrl(S.dynamicPages, url)
        last == Len(S.dynamicPages)
    IN  IF index >= 0
        THEN [S |-> [S EXCEPT !.dynamicPages = SubSeq(@, 1, last - 1)],
              result |-> Success(S.dynamicPages[last])]
        ELSE [S |-> S, result |-> Error("not found in sitemap")]

\* removePageFromSitemap(url)
removePageFromSitemap(S, url) ==
    LET index == FindIndexByUrl(S.dynamicPages, url)
    IN  IF index >= 0
        THEN [S |-> [S EXCEPT !.dynamicPages = Splice1(@, index)],
              result |-> Success(S.dynamicPages[index + 1])]
        ELSE [S |-> S, result |-> Error("not found in sitemap")]

\* [...SITE_STRUCTURE.pages, ...SITE_STRUCTURE.dynamicPages]
allPagesOf(S) == S.pages \o S.dynamicPages

\* Array.prototype.indexOf: the first index (from 0) of x, -1 when absent.
IndexOf(s, x) ==
    LET hits == {i \in 1..Len(s) : s[i] = x}
    IN  IF hits = {} THEN 0 - 1
        ELSE (CHOOSE i \in hits : \A j \in hits : i <= j) - 1

\* The elements of s at the positions in idx, in their order in s.
RECURSIVE PickFrom(_, _, _)
PickFrom(s, idx, i) ==
    IF i > Len(s) THEN <<>>
    ELSE (IF i \in idx THEN <<s[i]>> ELSE <<>>) \o PickFrom(s, idx, i + 1)

\* Faulty variant (C6): a url is compared with the one just before it only.
DuplicateUrls_Adjacent(urls) ==
    PickFrom(urls, {i \in 2..Len(urls) : urls[i] = urls[i - 1]}, 1)

\* urls.filter((url, index) => urls.indexOf(url) !== index)
DuplicateUrls(urls) ==
    PickFrom(urls, {i \in 1..Len(urls) : IndexOf(urls, urls[i]) # i - 1}, 1)

\* String.prototype.startsWith('/')
StartsWithSlash(chars) == Len(chars) >= 1 /\ chars[1] = "/"

\* /^\d{4}-\d{2}-\d{2}$/.test(chars)
MatchesIsoDate(chars) ==
    /\ Len(chars) = 10
    /\ \A i \in {1, 2, 3, 4, 6, 7, 9, 10} : chars[i] \in Digits
    /\ chars[5] = "-"
    /\ chars[8] = "-"

validChangeFreqs ==
    <<Str(Always), Str(Hourly), Str(Daily), Str(Weekly), Str(Monthly), Str(Yearly), Str(Never)>>

\* Faulty variant (C9): the ends of the range are refused (<= 0, >= 1).
PriorityOutOfRange_EndsExcluded(priority) ==
    priority.t = "number" /\ (priority.n <= 0 \/ priority.n >= 100)

\* page.priority < 0 || page.priority > 1; every stored priority is a number
\* (an absent or zero priority is replaced by 0.5 when the entry is stored).
PriorityOutOfRange(priority) ==
    priority.t = "number" /\ (priority.n < 0 \/ priority.n > 100)

\* Faulty variant (C8): a url without its leading slash is pushed on errors.
PageErrors_SlashIsError(page, index) ==
    (IF ~Truthy(page.url) THEN <<[msg |-> "Missing URL", page |-> index]>> ELSE <<>>)
    \o (IF ~StartsWithSlash(page.url.s)
        THEN <<[msg |-> "URL should start with /", page |-> index]>> ELSE <<>>)
    \o (IF PriorityOutOfRange(page.priority)
        THEN <<[msg |-> "Priority must be between 0 and 1", page |-> index]>> ELSE <<>>)
    \o (IF IndexOf(validChangeFreqs, page.changefreq) < 0
        THEN <<[msg |-> "Invalid changefreq value", page |-> index]>> ELSE <<>>)

\* What the forEach body pushes on errors for one page (index from 0).
PageErrors(page, index) ==
    (IF ~Truthy(page.url) THEN <<[msg |-> "Missing URL", page |-> index]>> ELSE <<>>)
    \o (IF PriorityOutOfRange(page.priority)
        THEN <<[msg |-> "Priority must be between 0 and 1", page |-> index]>> ELSE <<>>)
    \o (IF IndexOf(validChangeFreqs, page.changefreq) < 0
        THEN <<[msg |-> "Invalid changefreq value", page |-> index]>> ELSE <<>>)

\* What the forEach body pushes on warnings for one page (index from 0).
PageWarnings(page, index) ==
    (IF ~StartsWithSlash(page.url.s)
     THEN <<[msg |-> "URL should start with /", page |-> index]>> ELSE <<>>)
    \o (IF Truthy(page.lastmod) /\ ~MatchesIsoDate(ToChars(page.lastmod))
        THEN <<[msg |-> "lastmod should be in YYYY-MM-DD format", page |-> index]>> ELSE <<>>)

\* What successive pushes (or `+=`) leave: the parts of each iteration of a
\* forEach, one after the other.
RECURSIVE Concat(_)
Concat(parts) ==
    IF parts = <<>> THEN <<>> ELSE Head(parts) \o Concat(Tail(parts))

\* Faulty variant (C7): errors.length >= 0
IsValid_NonNegative(errors) == Len(errors) >= 0

\* errors.length === 0
IsValid(errors) == Len(errors) = 0

\* validateSitemap(): page.url.startsWith throws a TypeError when a url is
\* not a string, and fromTry turns that into an Error.
validateSitemap(S) ==
    LET allPages == allPagesOf(S)
        urls == [i \in 1..Len(allPages) |-> allPages[i].url]
        duplicates == DuplicateUrls(urls)
        errors == (IF Len(duplicates) > 0
                   THEN <<[msg |-> "Duplicate URLs found", urls |-> duplicates]>>
                   ELSE <<>>)
                  \o Concat([i \in 1..Len(allPages) |-> PageErrors(allPages[i], i - 1)])
    IN  IF \E i \in 1..Len(allPages) : allPages[i].url.t # "string"
        THEN Error("TypeError")
        ELSE Success([isValid |-> IsValid(errors),
                      errors |-> errors,
                      warnings |-> Concat([i \in 1..Len(allPages) |->
                                              PageWarnings(allPages[i], i - 1)]),
                      totalPages |-> Len(allPages)])

\* One `xml += ...` of generateSitemapXML: the literal text before the
\* interpolated value, the value's characters, the literal text after it.
Fragment(before, chars, after) == <<before, chars, after>>

\* The six fragments the forEach body appends for one page.
UrlElement(page, index) ==
    << Fragment("  <url>\n", <<>>, ""),
       Fragment("    <loc>", siteUrl \o ToChars(page.url), "</loc>\n"),
       Fragment("    <lastmod>", ToChars(page.lastmod), "</lastmod>\n"),
       Fragment("    <changefreq>", ToChars(page.changefreq), "</changefreq>\n"),
       Fragment("    <priority>", ToChars(page.priority), "</priority>\n"),
       Fragment("  </url>\n", <<>>, "") >>

\* generateSitemapXML()
generateSitemapXML(S) ==
    Success(<< Fragment("<?xml version=\"1.0\" encoding=\"UTF-8\"?>\n", <<>>, ""),
               Fragment("<urlset xmlns=\"http://www.sitemaps.org/schemas/sitemap/0.9\">\n", <<>>, "") >>
            \o Concat([i \in 1..Len(allPagesOf(S)) |-> UrlElement(allPagesOf(S)[i], i - 1)])
            \o << Fragment("</urlset>", <<>>, "") >>)

(* ------------------------------ document ------------------------------ *)

\* The escaping primitive of ../security/functions.js, applied to one
\* character: the five HTML-significant characters become entities.
escapeChar(c) ==
    CASE c = "&" -> <<"&", "a", "m", "p", ";">>
      [] c = "<" -> <<"&", "l", "t", ";">>
      [] c = ">" -> <<"&", "g", "t", ";">>
      [] c = "\"" -> <<"&", "q", "u", "o", "t", ";">>
      [] c = "'" -> <<"&", "#", "3", "9", ";">>
      [] OTHER -> <<c>>

\* The characters with each HTML-significant one replaced, as a
\* String.prototype.replace over the whole string does it.
RECURSIVE escapeChars(_)
escapeChars(chars) ==
    IF Len(chars) = 0 THEN <<>>
    ELSE IF Len(chars) = 1 THEN escapeChar(chars[1])
    ELSE LET half == Len(chars) \div 2
         IN  escapeChars(SubSeq(chars, 1, half))
             \o escapeChars(SubSeq(chars, half + 1, Len(chars)))

\* escape(text): the string with every character escaped.  The result
\* carries the mark of having passed through escape.
escape(text) ==
    [t |-> "string", s |-> escapeChars(text.s), escaped |-> TRUE]

\* An element: its tag name, its attributes (name -> string) and its text.
Element(tag, attrs, text) == [tag |-> tag, attrs |-> attrs, text |-> text]

\* element.hasAttribute(name)
HasAttr(el, name) == name \in DOMAIN el.attrs

\* The selector [name="value"]: the attribute is present with these
\* characters.
AttrIs(el, name, chars) == HasAttr(el, name) /\ el.attrs[name].s = chars

Viewport == <<"v", "i", "e", "w", "p", "o", "r", "t">>
Stylesheet == <<"s", "t", "y", "l", "e", "s", "h", "e", "e", "t">>
Icon == <<"i", "c", "o", "n">>
Preload == <<"p", "r", "e", "l", "o", "a", "d">>
AppJs == <<"/", "a", "p", "p", ".", "j", "s">>
Description == <<"d", "e", "s", "c", "r", "i", "p", "t", "i", "o", "n">>
LdJson ==
    <<"a", "p", "p", "l", "i", "c", "a", "t", "i", "o", "n", "/", "l", "d",
      "+", "j", "s", "o", "n">>
TrueChars == <<"t", "r", "u", "e">>

\* The elements of the head that the page is served with and that the SEO
\* core must keep: the charset, viewport and http-equiv metas, the
\* stylesheet and the icon links.
ServedHead ==
    << Element("meta", [charset |-> Str(<<"U", "T", "F", "-", "8">>)], <<>>),
       Element("meta", [name |-> Str(Viewport), content |-> Str(<<"w", "i", "d", "t", "h", "=", "d", "e", "v", "i", "c", "e",
                                                                  "-", "w", "i", "d", "t", "h">>)], <<>>),
       Element("meta", ("http-equiv" :> Str(<<"X", "-", "U", "A", "-", "C", "o", "m", "p", "a", "t", "i",
                                              "b", "l", "e">>)) @@ [content |-> Str(<<"I", "E", "=", "e", "d", "g", "e">>)], <<>>),
       Element("link", [rel |-> Str(Stylesheet), href |-> Str(<<"/", "s", "t", "y", "l", "e", "s", ".", "c", "s", "s">>)], <<>>),
       Element("link", [rel |-> Str(Icon), href |-> Str(<<"/", "f", "a", "v", "i", "c", "o", "n", ".", "i", "c", "o">>)], <<>>) >>

\* A hand-written JSON-LD script, without the data-schema mark.
ForeignScript == Element("script", [type |-> Str(LdJson)], <<"{", "}">>)

\* What else a served head may hold: a description meta and a preload link
\* that the SEO core replaces, a hand-written JSON-LD script, and a marked
\* schema script left by an earlier rendering.
StaleHead ==
    << Element("meta", [name |-> Str(Description), content |-> Str(<<"O", "l", "d">>)], <<>>),
       Element("link", [rel |-> Str(Preload), href |-> Str(AppJs)], <<>>),
       ForeignScript,
       Element("script", [type |-> Str(LdJson)] @@ ("data-schema" :> Str(TrueChars)), <<"{", "}">>) >>

\* The heads a page is loaded with.
LoadedHeads == {ServedHead, ServedHead \o StaleHead}

\* The state of the browser when the page has loaded at '/': the document
\* as served, one history entry, an empty session storage.  pushState tells
\* whether window.history.pushState exists.
PageLoaded(head, pushState) ==
    /\ document = [title |-> Str(<<"C", "r", "y", "p", "t", "o", "V", "e", "r", "s", "u", "s", ".",
                                   "i", "o">>), head |-> head]
    /\ location = [pathname |-> UrlHome]
    /\ history = [pushState |-> pushState, pushed |-> <<>>]
    /\ sessionStorage = [seo_analytics |-> Null]

\* The key -> count object that the forEach of getSitemapStats builds:
\* distribution[key] = (distribution[key] || 0) + 1 for each key in turn.
Tally(keys) ==
    [k \in {keys[i] : i \in 1..Len(keys)} |->
        Cardinality({i \in 1..Len(keys) : keys[i] = k})]

\* new Date().toISOString(): the instant of the call.
NowISO ==
    TodayISO \o <<"T", "1", "2", ":", "0", "0", ":", "0", "0", ".", "0", "0", "0", "Z">>

\* Faulty variant (C11): the pages are counted by shifting them out of the
\* dynamic collection.
getSitemapStats_Drains(S) ==
    LET allPages == allPagesOf(S)
    IN  [S |-> [S EXCEPT !.dynamicPages = <<>>],
         result |-> Success(
            [totalPages |-> Len(S.pages) + Len(S.dynamicPages),
             staticPages |-> Len(S.pages),
             dynamicPages |-> Len(S.dynamicPages),
             priorityDistribution |->
                Tally([i \in 1..Len(allPages) |-> NumberToChars(allPages[i].priority.n)]),
             changefreqDistribution |->
                Tally([i \in 1..Len(allPages) |-> allPages[i].changefreq.s]),
             lastGenerated |-> Str(NowISO)])]

\* getSitemapStats(): the three counts, the two histograms and the instant
\* of the call; the collections are read through a spread copy.
getSitemapStats(S) ==
    LET allPages == allPagesOf(S)
    IN  [S |-> S,
         result |-> Success(
            [totalPages |-> Len(S.pages) + Len(S.dynamicPages),
             staticPages |-> Len(S.pages),
             dynamicPages |-> Len(S.dynamicPages),
             priorityDistribution |->
                Tally([i \in 1..Len(allPages) |-> NumberToChars(allPages[i].priority.n)]),
             changefreqDistribution |->
                Tally([i \in 1..Len(allPages) |-> allPages[i].changefreq.s]),
             lastGenerated |-> Str(NowISO)])]

(* ------------------------------ actions ------------------------------- *)

Init ==
    /\ SITE_STRUCTURE = [pages |-> StaticPages, dynamicPages |-> <<>>]
    /\ lastCall = [op |-> "load"]
    /\ lastResult = Success(Undefined)
    /\ PageLoaded(ServedHead, TRUE)

AddPage ==
    \E pageInfo \in PageInfos :
        LET r == addPageToSitemap(SITE_STRUCTURE, pageInfo)
        IN  /\ Len(r.S.dynamicPages) <= MaxDynamic
            /\ SITE_STRUCTURE' = r.S
            /\ lastCall' = [op |-> "addPageToSitemap", arg |-> pageInfo]
            /\ lastResult' = r.result
            /\ UNCHANGED browserVars

RemovePage ==
    \E url \in RemoveUrls :
        LET r == removePageFromSitemap(SITE_STRUCTURE, url)
        IN  /\ SITE_STRUCTURE' = r.S
            /\ lastCall' = [op |-> "removePageFromSitemap", arg |-> url]
            /\ lastResult' = r.result
            /\ UNCHANGED browserVars

ValidateSitemap ==
    /\ lastCall' = [op |-> "validateSitemap"]
    /\ lastResult' = validateSitemap(SITE_STRUCTURE)
    /\ UNCHANGED <<SITE_STRUCTURE, browserVars>>

GenerateSitemapXML ==
    /\ lastCall' = [op |-> "generateSitemapXML"]
    /\ lastResult' = generateSitemapXML(SITE_STRUCTURE)
    /\ UNCHANGED <<SITE_STRUCTURE, browserVars>>

GetSitemapStats ==
    LET r == getSitemapStats(SITE_STRUCTURE)
    IN  /\ SITE_STRUCTURE' = r.S
        /\ lastCall' = [op |-> "getSitemapStats"]
        /\ lastResult' = r.result
        /\ UNCHANGED browserVars

Next == AddPage \/ RemovePage \/ ValidateSitemap \/ GenerateSitemapXML \/ GetSitemapStats

Spec == Init /\ [][Next]_vars

(* ------------------------- registry properties ------------------------ *)

dynamicPages == SITE_STRUCTURE.dynamicPages

UrlsOf(pagesSeq) == {pagesSeq[i].url : i \in 1..Len(pagesSeq)}

\* Two entries at different positions of pagesSeq carry the same url.
HasDuplicateUrl(pagesSeq) ==
    \E i, j \in 1..Len(pagesSeq) : i < j /\ pagesSeq[i].url = pagesSeq[j].url

AddSucceeded(call, result) ==
    call.op = "addPageToSitemap" /\ result.type = "Success"

RemoveSucceeded(call, result) ==
    call.op = "removePageFromSitemap" /\ result.type = "Success"

\* A priority in [0, 1], both ends included.
InUnitRange(priority) == priority.t = "number" /\ priority.n >= 0 /\ priority.n <= 100

\* C1: after every addPageToSitemap / removePageFromSitemap call, static
\* entries followed by dynamic entries contain no two entries with one url.
C1_NoDuplicateUrlInCombined == ~HasDuplicateUrl(allPagesOf(SITE_STRUCTURE))

\* C2: addPageToSitemap with a url and a priority p1 in [0, 1], then again
\* with the same url and a priority p2 in [0, 1], leaves exactly one dynamic
\* entry for that url, and its priority is p2.
C2_UpsertKeepsLatestPriority ==
    [][ ( /\ AddSucceeded(lastCall, lastResult)
          /\ InUnitRange(lastCall.arg.priority)
          /\ AddSucceeded(lastCall', lastResult')
          /\ InUnitRange(lastCall'.arg.priority)
          /\ lastCall'.arg.url = lastCall.arg.url )
        => LET now == SITE_STRUCTURE'.dynamicPages
               at == {i \in 1..Len(now) : now[i].url = lastCall'.arg.url}
           IN  /\ Cardinality(at) = 1
               /\ \A i \in at : now[i].priority = lastCall'.arg.priority ]_vars

\* The argument of the call is an object whose url is undefined, null or ''.
UrlAbsentIn(call) ==
    call.op = "addPageToSitemap" /\ ~Nullish(call.arg) /\ call.arg.url \in AbsentUrls

\* C3: addPageToSitemap with an entry whose url is absent returns a failure
\* and leaves the static and the dynamic collection as they were.
C3_AbsentUrlFailsAndChangesNothing ==
    [][ UrlAbsentIn(lastCall')
        => lastResult'.type = "Error" /\ SITE_STRUCTURE' = SITE_STRUCTURE ]_vars

\* C3's case: a registry with an entry, and the call with url '' just failed.
C3_Witness ==
    /\ UrlAbsentIn(lastCall)
    /\ lastCall.arg.url = Str(<<>>)
    /\ lastResult.type = "Error"
    /\ Len(dynamicPages) >= 1

\* The pages of pagesSeq whose url is not url, in their order.
RECURSIVE WithoutUrl(_, _)
WithoutUrl(pagesSeq, url) ==
    IF pagesSeq = <<>> THEN <<>>
    ELSE (IF Head(pagesSeq).url = url THEN <<>> ELSE <<Head(pagesSeq)>>)
         \o WithoutUrl(Tail(pagesSeq), url)

C5_StaticPagesUnchanged == SITE_STRUCTURE.pages = StaticPages

\* C5's case: calls naming a static url have acted on the registry.
C5_Witness ==
    /\ lastCall.op = "removePageFromSitemap"
    /\ lastCall.arg = Str(UrlAbout)
    /\ \E i \in 1..Len(dynamicPages) : dynamicPages[i].url = Str(UrlServices)

(* ------------------------ validation properties ----------------------- *)

\* The seven change frequencies of the sitemap protocol.
ChangeFreqTokens ==
    {Str(Always), Str(Hourly), Str(Daily), Str(Weekly), Str(Monthly), Str(Yearly), Str(Never)}

\* No entry of pagesSeq has a priority outside [0, 1] or a changefreq that
\* is not one of the seven.
NoFieldError(pagesSeq) ==
    \A i \in 1..Len(pagesSeq) :
        InUnitRange(pagesSeq[i].priority) /\ pagesSeq[i].changefreq \in ChangeFreqTokens

validation == validateSitemap(SITE_STRUCTURE)

HasMessage(list, msg) == \E i \in 1..Len(list) : list[i].msg = msg

\* C6 as stated: validateSitemap().errors is empty if and only if the
\* combined collection contains no duplicate url.
C6_ErrorsEmptyIffNoDuplicate ==
    /\ validation.type = "Success"
    /\ validation.value.errors = <<>> <=> ~HasDuplicateUrl(allPagesOf(SITE_STRUCTURE))

\* C6 as amended: validateSitemap().errors holds a duplicate-URL error if
\* and only if the combined collection contains a duplicate url, and it is
\* empty if and only if there is no duplicate url and no entry has a
\* priority outside [0, 1] or a changefreq outside the seven tokens.
C6_ErrorsEmptyIffNoDuplicateNoFieldError ==
    /\ validation.type = "Success"
    /\ HasMessage(validation.value.errors, "Duplicate URLs found")
         <=> HasDuplicateUrl(allPagesOf(SITE_STRUCTURE))
    /\ validation.value.errors = <<>>
         <=> ( /\ ~HasDuplicateUrl(allPagesOf(SITE_STRUCTURE))
               /\ NoFieldError(allPagesOf(SITE_STRUCTURE)) )

\* C6's case: validateSitemap ran on a registry whose only defect is a
\* dynamic entry with the url of a static one.
C6_Witness ==
    /\ lastCall.op = "validateSitemap"
    /\ HasDuplicateUrl(allPagesOf(SITE_STRUCTURE))
    /\ NoFieldError(allPagesOf(SITE_STRUCTURE))
    /\ Len(lastResult.value.errors) = 1

\* C7: when two entries of the combined collection share a url,
\* validateSitemap returns a Success whose errors hold a duplicate-URL error
\* and whose isValid is false.
C7_DuplicateReportedAsData ==
    HasDuplicateUrl(allPagesOf(SITE_STRUCTURE))
    => /\ validation.type = "Success"
       /\ HasMessage(validation.value.errors, "Duplicate URLs found")
       /\ validation.value.isValid = FALSE

\* C7's case: validateSitemap ran with '/services' registered twice.
C7_Witness ==
    /\ lastCall.op = "validateSitemap"
    /\ lastResult.type = "Success"
    /\ lastResult.value.isValid = FALSE
    /\ lastResult.value.errors[1] = [msg |-> "Duplicate URLs found", urls |-> <<Str(UrlServices)>>]

\* The lastmod values that are dates written YYYY-MM-DD.
IsoDates == {Str(TodayISO), Str(Date2024)}

NoLeadingSlash(url) == url.s = <<>> \/ Head(url.s) # "/"

\* The number of defects of page that call for a warning.
WarningDefects(page) ==
    (IF NoLeadingSlash(page.url) THEN 1 ELSE 0)
    + (IF page.lastmod \notin IsoDates THEN 1 ELSE 0)

\* C8: isValid is true exactly when errors is empty; registering a new entry
\* whose only defects are a url without leading '/' or a lastmod that is not
\* YYYY-MM-DD adds warnings only: errors and isValid stay as they were.
C8_WarningsNeverBlockValidity ==
    /\ [](validation.type = "Success"
          /\ (validation.value.isValid <=> validation.value.errors = <<>>))
    /\ [][ ( /\ AddSucceeded(lastCall', lastResult')
             /\ lastResult'.value.url \notin UrlsOf(allPagesOf(SITE_STRUCTURE))
             /\ NoFieldError(<<lastResult'.value>>)
             /\ WarningDefects(lastResult'.value) > 0 )
           => LET old == validateSitemap(SITE_STRUCTURE).value
                  new == validateSitemap(SITE_STRUCTURE').value
              IN  /\ new.errors = old.errors
                  /\ new.isValid = old.isValid
                  /\ Len(new.warnings) = Len(old.warnings) + WarningDefects(lastResult'.value)
                  /\ SubSeq(new.warnings, 1, Len(old.warnings)) = old.warnings ]_vars

\* C8's case: 'blog/y' with lastmod '01/01/2024' is the only dynamic entry;
\* the sitemap is valid and carries two warnings.
C8_Witness ==
    /\ AddSucceeded(lastCall, lastResult)
    /\ dynamicPages = <<Page(Str(UrlBlogY), Num(100), Str(Weekly), Str(DateSlashed))>>
    /\ validation.value.isValid = TRUE
    /\ Len(validation.value.warnings) = 2

\* The index (from 0) in the combined collection of the dynamic entry with
\* this url.
CombinedIndexOf(url) ==
    Len(SITE_STRUCTURE.pages) - 1
    + CHOOSE i \in 1..Len(dynamicPages) : dynamicPages[i].url = url

ReportsAt(msg, index) ==
    \E i \in 1..Len(validation.value.errors) :
        /\ validation.value.errors[i].msg = msg
        /\ validation.value.errors[i].page = index

PriorityErrorIffOutOfRange ==
    ReportsAt("Priority must be between 0 and 1", CombinedIndexOf(lastCall.arg.url))
    <=> ( /\ lastCall.arg.priority.t = "number"
          /\ (lastCall.arg.priority.n < 0 \/ lastCall.arg.priority.n > 100) )

\* C9 as stated: for the entry just registered, validateSitemap reports a
\* priority error exactly when the supplied priority is below 0 or above 1,
\* and a changefreq error exactly when the supplied changefreq is not one of
\* the seven tokens.
C9_ErrorsFollowSuppliedFields ==
    AddSucceeded(lastCall, lastResult)
    => /\ PriorityErrorIffOutOfRange
       /\ lastCall.arg.changefreq # Undefined
          => ( ReportsAt("Invalid changefreq value", CombinedIndexOf(lastCall.arg.url))
               <=> lastCall.arg.changefreq \notin ChangeFreqTokens )

\* C9 as amended: the changefreq error is reported exactly when the supplied
\* changefreq is a non-empty value that is not one of the seven tokens; an
\* omitted or empty changefreq is stored as 'monthly' and reports no error.
C9_ErrorsFollowSuppliedNonEmptyFields ==
    AddSucceeded(lastCall, lastResult)
    => /\ PriorityErrorIffOutOfRange
       /\ ReportsAt("Invalid changefreq value", CombinedIndexOf(lastCall.arg.url))
          <=> ( /\ lastCall.arg.changefreq \notin {Undefined, Str(<<>>)}
                /\ lastCall.arg.changefreq \notin ChangeFreqTokens )

\* C9's case: an entry with priority 1.0 and 'weekly' was just registered
\* and validateSitemap reports nothing at its index.
C9_Witness ==
    /\ AddSucceeded(lastCall, lastResult)
    /\ lastCall.arg.priority = Num(100)
    /\ lastCall.arg.changefreq = Str(Weekly)
    /\ ~ReportsAt("Priority must be between 0 and 1", CombinedIndexOf(lastCall.arg.url))
    /\ ~ReportsAt("Invalid changefreq value", CombinedIndexOf(lastCall.arg.url))

(* -------------------------- sitemap XML order ------------------------- *)

IsLoc(fragment) == fragment[1] = "    <loc>"

IsUrlOpening(fragment) == fragment[1] = "  <url>\n"

\* The values of the <loc> elements of xml, in document order.
LocsIn(xml) ==
    LET locs == SelectSeq(xml, IsLoc)
    IN  [i \in 1..Len(locs) |-> locs[i][2]]

\* The number of <url> elements opened in xml.
CountOpening(xml) == Len(SelectSeq(xml, IsUrlOpening))

Locs(S) == LocsIn(generateSitemapXML(S).value)

StaticLocs == [i \in 1..Len(StaticPages) |-> siteUrl \o StaticPages[i].url.s]

DynamicLocs(S) ==
    LET locs == Locs(S) IN SubSeq(locs, Len(StaticPages) + 1, Len(locs))

Without(s, x) == LET Differs(y) == y # x IN SelectSeq(s, Differs)

ReadOps == {"getSitemapStats", "validateSitemap", "generateSitemapXML"}

\* C11: getSitemapStats, like validateSitemap and generateSitemapXML, leaves
\* the static and the dynamic collection as they were, and the totalPages it
\* reports is the number of static entries plus the number of dynamic
\* entries (reported in staticPages and dynamicPages).
C11_StatsReadOnlyAndTotalIsSum ==
    [][ lastCall'.op \in ReadOps
        => /\ SITE_STRUCTURE' = SITE_STRUCTURE
           /\ lastCall'.op = "getSitemapStats"
              => /\ lastResult'.type = "Success"
                 /\ lastResult'.value.staticPages = Len(SITE_STRUCTURE.pages)
                 /\ lastResult'.value.dynamicPages = Len(SITE_STRUCTURE.dynamicPages)
                 /\ lastResult'.value.totalPages
                        = Len(SITE_STRUCTURE.pages) + Len(SITE_STRUCTURE.dynamicPages) ]_vars

\* C11's case: getSitemapStats ran on a registry with dynamic entries.
C11_Witness ==
    /\ lastCall.op = "getSitemapStats"
    /\ Len(dynamicPages) = 2
    /\ lastResult.value.totalPages = 8

(* ------------------------------ meta tags ----------------------------- *)

\* SEO_CONFIG: the site-wide values.
SEO_CONFIG ==
    [t |-> "object",
     siteName |-> Str(<<"C", "r", "y", "p", "t", "o", "V", "e", "r", "s", "u", "s", ".", "i", "o">>),
     siteUrl |-> Str(siteUrl),
     defaultTitle |-> Str(<<"C", "r", "y", "p", "t", "o", "V", "e", "r", "s", "u", "s", ".", "i",
                            "o", " ", "-", " ", "E", "n", "t", "e", "r", "p", "r", "i",
                            "s", "e", " ", "D", "e", "c", "e", "n", "t", "r", "a", "l",
                            "i", "z", "e", "d", " ", "I", "n", "f", "r", "a", "s", "t",
                            "r", "u", "c", "t", "u", "r", "e">>),
     defaultDescription |-> Str(<<"L", "e", "a", "d", "i", "n", "g", " ", "p", "r", "o", "v", "i",
                                  "d", "e", "r", " ", "o", "f", " ", "e", "n", "t", "e", "r",
                                  "p", "r", "i", "s", "e", " ", "d", "e", "c", "e", "n", "t",
                                  "r", "a", "l", "i", "z", "e", "d", " ", "i", "n", "f", "r",
                                  "a", "s", "t", "r", "u", "c", "t", "u", "r", "e", " ", "s",
                                  "o", "l", "u", "t", "i", "o", "n", "s", ".", " ", "A", "W",
                                  "S", " ", "f", "o", "r", " ", "t", "h", "e", " ", "d", "e",
                                  "c", "e", "n", "t", "r", "a", "l", "i", "z", "e", "d", " ",
                                  "w", "e", "b", " ", "w", "i", "t", "h", " ", "s", "e", "c",
                                  "u", "r", "i", "t", "y", ",", " ", "s", "c", "a", "l", "a",
                                  "b", "i", "l", "i", "t", "y", ",", " ", "a", "n", "d", " ",
                                  "i", "n", "n", "o", "v", "a", "t", "i", "o", "n", ".">>),
     defaultKeywords |-> Str(<<"b", "l", "o", "c", "k", "c", "h", "a", "i", "n", ",", " ", "d",
                               "e", "c", "e", "n", "t", "r", "a", "l", "i", "z", "e", "d",
                               " ", "i", "n", "f", "r", "a", "s", "t", "r", "u", "c", "t",
                               "u", "r", "e", ",", " ", "e", "n", "t", "e", "r", "p", "r",
                               "i", "s", "e", " ", "w", "e", "b", "3", ",", " ", "c", "r",
                               "y", "p", "t", "o", " ", "s", "o", "l", "u", "t", "i", "o",
                               "n", "s", ",", " ", "d", "e", "c", "e", "n", "t", "r", "a",
                               "l", "i", "z", "e", "d", " ", "w", "e", "b", ",", " ", "b",
                               "l", "o", "c", "k", "c", "h", "a", "i", "n", " ", "d", "e",
                               "v", "e", "l", "o", "p", "m", "e", "n", "t", ",", " ", "e",
                               "n", "t", "e", "r", "p", "r", "i", "s", "e", " ", "b", "l",
                               "o", "c", "k", "c", "h", "a", "i", "n">>),
     defaultImage |-> Str(<<"h", "t", "t", "p", "s", ":", "/", "/", "c", "r", "y", "p", "t", "o",
                            "v", "e", "r", "s", "u", "s", ".", "i", "o", "/", "i", "m",
                            "a", "g", "e", "s", "/", "o", "g", "-", "i", "m", "a", "g",
                            "e", ".", "j", "p", "g">>),
     twitterHandle |-> Str(<<"@", "c", "r", "y", "p", "t", "o", "v", "e", "r", "s", "u", "s">>),
     author |-> Str(<<"C", "r", "y", "p", "t", "o", "V", "e", "r", "s", "u", "s", " ", "T", "e",
                      "a", "m">>),
     language |-> Str(<<"e", "n">>),
     locale |-> Str(<<"e", "n", "_", "U", "S">>)]

\* PAGE_SEO_CONFIG: the six pages; each canonical is the page's sitemap url.
PAGE_SEO_CONFIG ==
    [home |-> [t |-> "object", title |-> Str(<<"C", "r", "y", "p", "t", "o", "V", "e", "r", "s", "u", "s",
                                               ".", "i", "o", " ", "-", " ", "E", "n", "t", "e", "r", "p",
                                               "r", "i", "s", "e", " ", "D", "e", "c", "e", "n", "t", "r",
                                               "a", "l", "i", "z", "e", "d", " ", "I", "n", "f", "r", "a",
                                               "s", "t", "r", "u", "c", "t", "u", "r", "e">>), description |-> Str(<<"L", "e", "a", "d", "i", "n", "g", " ", "p", "r", "o", "v",
                                                                               "i", "d", "e", "r", " ", "o", "f", " ", "e", "n", "t", "e",
                                                                               "r", "p", "r", "i", "s", "e", " ", "d", "e", "c", "e", "n",
                                                                               "t", "r", "a", "l", "i", "z", "e", "d", " ", "i", "n", "f",
                                                                               "r", "a", "s", "t", "r", "u", "c", "t", "u", "r", "e", " ",
                                                                               "s", "o", "l", "u", "t", "i", "o", "n", "s", ".", " ", "T",
                                                                               "r", "a", "n", "s", "f", "o", "r", "m", " ", "y", "o", "u",
                                                                               "r", " ", "b", "u", "s", "i", "n", "e", "s", "s", " ", "w",
                                                                               "i", "t", "h", " ", "s", "e", "c", "u", "r", "e", ",", " ",
                                                                               "s", "c", "a", "l", "a", "b", "l", "e", " ", "W", "e", "b",
                                                                               "3", " ", "t", "e", "c", "h", "n", "o", "l", "o", "g", "y",
                                                                               ".">>),
              keywords |-> Str(<<"e", "n", "t", "e", "r", "p", "r", "i", "s", "e", " ", "b", "l",
                                 "o", "c", "k", "c", "h", "a", "i", "n", ",", " ", "d", "e",
                                 "c", "e", "n", "t", "r", "a", "l", "i", "z", "e", "d", " ",
                                 "i", "n", "f", "r", "a", "s", "t", "r", "u", "c", "t", "u",
                                 "r", "e", ",", " ", "w", "e", "b", "3", " ", "s", "o", "l",
                                 "u", "t", "i", "o", "n", "s", ",", " ", "b", "l", "o", "c",
                                 "k", "c", "h", "a", "i", "n", " ", "d", "e", "v", "e", "l",
                                 "o", "p", "m", "e", "n", "t", ",", " ", "c", "r", "y", "p",
                                 "t", "o", " ", "e", "n", "t", "e", "r", "p", "r", "i", "s",
                                 "e">>), canonical |-> Str(UrlHome)],
     services |-> [t |-> "object", title |-> Str(<<"O", "u", "r", " ", "S", "e", "r", "v", "i", "c", "e", "s",
                                                   " ", "-", " ", "C", "r", "y", "p", "t", "o", "V", "e", "r",
                                                   "s", "u", "s", ".", "i", "o">>), description |-> Str(<<"C", "o", "m", "p", "r", "e", "h", "e", "n", "s", "i", "v",
                                                                                       "e", " ", "d", "e", "c", "e", "n", "t", "r", "a", "l", "i",
                                                                                       "z", "e", "d", " ", "i", "n", "f", "r", "a", "s", "t", "r",
                                                                                       "u", "c", "t", "u", "r", "e", " ", "s", "e", "r", "v", "i",
                                                                                       "c", "e", "s", " ", "i", "n", "c", "l", "u", "d", "i", "n",
                                                                                       "g", " ", "b", "l", "o", "c", "k", "c", "h", "a", "i", "n",
                                                                                       " ", "d", "e", "v", "e", "l", "o", "p", "m", "e", "n", "t",
                                                                                       ",", " ", "s", "m", "a", "r", "t", " ", "c", "o", "n", "t",
                                                                                       "r", "a", "c", "t", "s", ",", " ", "D", "e", "F", "i", " ",
                                                                                       "s", "o", "l", "u", "t", "i", "o", "n", "s", ",", " ", "a",
                                                                                       "n", "d", " ", "e", "n", "t", "e", "r", "p", "r", "i", "s",
                                                                                       "e", " ", "W", "e", "b", "3", " ", "c", "o", "n", "s", "u",
                                                                                       "l", "t", "i", "n", "g", ".">>),
                  keywords |-> Str(<<"b", "l", "o", "c", "k", "c", "h", "a", "i", "n", " ", "s",
                                     "e", "r", "v", "i", "c", "e", "s", ",", " ", "s", "m", "a",
                                     "r", "t", " ", "c", "o", "n", "t", "r", "a", "c", "t", "s",
                                     ",", " ", "D", "e", "F", "i", ",", " ", "W", "e", "b", "3",
                                     " ", "c", "o", "n", "s", "u", "l", "t", "i", "n", "g", ",",
                                     " ", "b", "l", "o", "c", "k", "c", "h", "a", "i", "n", " ",
                                     "d", "e", "v", "e", "l", "o", "p", "m", "e", "n", "t", " ",
                                     "s", "e", "r", "v", "i", "c", "e", "s">>), canonical |-> Str(UrlServices)],
     about |-> [t |-> "object", title |-> Str(<<"A", "b", "o", "u", "t", " ", "U", "s", " ", "-", " ", "C",
                                                "r", "y", "p", "t", "o", "V", "e", "r", "s", "u", "s", ".",
                                                "i", "o">>), description |-> Str(<<"L", "e", "a", "r", "n", " ", "a", "b", "o", "u", "t", " ",
                                                                                 "C", "r", "y", "p", "t", "o", "V", "e", "r", "s", "u", "s",
                                                                                 ".", "i", "o", " ", "t", "e", "a", "m", " ", "a", "n", "d",
                                                                                 " ", "o", "u", "r", " ", "m", "i", "s", "s", "i", "o", "n",
                                                                                 " ", "t", "o", " ", "r", "e", "v", "o", "l", "u", "t", "i",
                                                                                 "o", "n", "i", "z", "e", " ", "e", "n", "t", "e", "r", "p",
                                                                                 "r", "i", "s", "e", " ", "i", "n", "f", "r", "a", "s", "t",
                                                                                 "r", "u", "c", "t", "u", "r", "e", " ", "t", "h", "r", "o",
                                                                                 "u", "g", "h", " ", "d", "e", "c", "e", "n", "t", "r", "a",
                                                                                 "l", "i", "z", "e", "d", " ", "t", "e", "c", "h", "n", "o",
                                                                                 "l", "o", "g", "y", ".">>),
               keywords |-> Str(<<"a", "b", "o", "u", "t", " ", "c", "r", "y", "p", "t", "o", "v",
                                  "e", "r", "s", "u", "s", ",", " ", "b", "l", "o", "c", "k",
                                  "c", "h", "a", "i", "n", " ", "c", "o", "m", "p", "a", "n",
                                  "y", ",", " ", "d", "e", "c", "e", "n", "t", "r", "a", "l",
                                  "i", "z", "e", "d", " ", "t", "e", "c", "h", "n", "o", "l",
                                  "o", "g", "y", " ", "t", "e", "a", "m", ",", " ", "w", "e",
                                  "b", "3", " ", "e", "x", "p", "e", "r", "t", "s">>), canonical |-> Str(UrlAbout)],
     contact |-> [t |-> "object", title |-> Str(<<"C", "o", "n", "t", "a", "c", "t", " ", "U", "s", " ", "-",
                                                  " ", "C", "r", "y", "p", "t", "o", "V", "e", "r", "s", "u",
                                                  "s", ".", "i", "o">>), description |-> Str(<<"G", "e", "t", " ", "i", "n", " ", "t", "o", "u", "c", "h",
                                                                                     " ", "w", "i", "t", "h", " ", "C", "r", "y", "p", "t", "o",
                                                                                     "V", "e", "r", "s", "u", "s", ".", "i", "o", " ", "e", "x",
                                                                                     "p", "e", "r", "t", "s", " ", "f", "o", "r", " ", "y", "o",
                                                                                     "u", "r", " ", "e", "n", "t", "e", "r", "p", "r", "i", "s",
                                                                                     "e", " ", "d", "e", "c", "e", "n", "t", "r", "a", "l", "i",
                                                                                     "z", "e", "d", " ", "i", "n", "f", "r", "a", "s", "t", "r",
                                                                                     "u", "c", "t", "u", "r", "e", " ", "n", "e", "e", "d", "s",
                                                                                     ".", " ", "S", "t", "a", "r", "t", " ", "y", "o", "u", "r",
                                                                                     " ", "W", "e", "b", "3", " ", "t", "r", "a", "n", "s", "f",
                                                                                     "o", "r", "m", "a", "t", "i", "o", "n", " ", "t", "o", "d",
                                                                                     "a", "y", ".">>),
                 keywords |-> Str(<<"c", "o", "n", "t", "a", "c", "t", " ", "c", "r", "y", "p",
                                    "t", "o", "v", "e", "r", "s", "u", "s", ",", " ", "b", "l",
                                    "o", "c", "k", "c", "h", "a", "i", "n", " ", "c", "o", "n",
                                    "s", "u", "l", "t", "a", "t", "i", "o", "n", ",", " ", "w",
                                    "e", "b", "3", " ", "e", "x", "p", "e", "r", "t", "s", " ",
                                    "c", "o", "n", "t", "a", "c", "t">>), canonical |-> Str(UrlContact)],
     faqs |-> [t |-> "object", title |-> Str(<<"F", "A", "Q", "s", " ", "-", " ", "C", "r", "y", "p", "t",
                                               "o", "V", "e", "r", "s", "u", "s", ".", "i", "o">>), description |-> Str(<<"F", "r", "e", "q", "u", "e", "n", "t", "l", "y", " ", "a",
                                                                               "s", "k", "e", "d", " ", "q", "u", "e", "s", "t", "i", "o",
                                                                               "n", "s", " ", "a", "b", "o", "u", "t", " ", "C", "r", "y",
                                                                               "p", "t", "o", "V", "e", "r", "s", "u", "s", ".", "i", "o",
                                                                               " ", "s", "e", "r", "v", "i", "c", "e", "s", ",", " ", "d",
                                                                               "e", "c", "e", "n", "t", "r", "a", "l", "i", "z", "e", "d",
                                                                               " ", "i", "n", "f", "r", "a", "s", "t", "r", "u", "c", "t",
                                                                               "u", "r", "e", ",", " ", "a", "n", "d", " ", "e", "n", "t",
                                                                               "e", "r", "p", "r", "i", "s", "e", " ", "b", "l", "o", "c",
                                                                               "k", "c", "h", "a", "i", "n", " ", "s", "o", "l", "u", "t",
                                                                               "i", "o", "n", "s", ".">>),
              keywords |-> Str(<<"b", "l", "o", "c", "k", "c", "h", "a", "i", "n", " ", "F", "A",
                                 "Q", ",", " ", "d", "e", "c", "e", "n", "t", "r", "a", "l",
                                 "i", "z", "e", "d", " ", "i", "n", "f", "r", "a", "s", "t",
                                 "r", "u", "c", "t", "u", "r", "e", " ", "q", "u", "e", "s",
                                 "t", "i", "o", "n", "s", ",", " ", "w", "e", "b", "3", " ",
                                 "F", "A", "Q">>), canonical |-> Str(UrlFaqs)],
     mission |-> [t |-> "object", title |-> Str(<<"O", "u", "r", " ", "M", "i", "s", "s", "i", "o", "n", " ",
                                                  "-", " ", "C", "r", "y", "p", "t", "o", "V", "e", "r", "s",
                                                  "u", "s", ".", "i", "o">>), description |-> Str(<<"D", "i", "s", "c", "o", "v", "e", "r", " ", "C", "r", "y",
                                                                                     "p", "t", "o", "V", "e", "r", "s", "u", "s", ".", "i", "o",
                                                                                     " ", "m", "i", "s", "s", "i", "o", "n", " ", "t", "o", " ",
                                                                                     "d", "e", "m", "o", "c", "r", "a", "t", "i", "z", "e", " ",
                                                                                     "e", "n", "t", "e", "r", "p", "r", "i", "s", "e", " ", "a",
                                                                                     "c", "c", "e", "s", "s", " ", "t", "o", " ", "d", "e", "c",
                                                                                     "e", "n", "t", "r", "a", "l", "i", "z", "e", "d", " ", "i",
                                                                                     "n", "f", "r", "a", "s", "t", "r", "u", "c", "t", "u", "r",
                                                                                     "e", " ", "a", "n", "d", " ", "d", "r", "i", "v", "e", " ",
                                                                                     "W", "e", "b", "3", " ", "a", "d", "o", "p", "t", "i", "o",
                                                                                     "n", ".">>),
                 keywords |-> Str(<<"c", "r", "y", "p", "t", "o", "v", "e", "r", "s", "u", "s",
                                    " ", "m", "i", "s", "s", "i", "o", "n", ",", " ", "w", "e",
                                    "b", "3", " ", "v", "i", "s", "i", "o", "n", ",", " ", "d",
                                    "e", "c", "e", "n", "t", "r", "a", "l", "i", "z", "e", "d",
                                    " ", "i", "n", "f", "r", "a", "s", "t", "r", "u", "c", "t",
                                    "u", "r", "e", " ", "m", "i", "s", "s", "i", "o", "n">>), canonical |-> Str(UrlMission)]]

\* The names and the literal contents of the generated tags.
Color667eea == <<"#", "6", "6", "7", "e", "e", "a">>

\* obj[key]: undefined when the object has no such property.
Get(obj, key) == IF key \in DOMAIN obj THEN obj[key] ELSE Undefined

\* Object.prototype.constructor, which every object literal inherits: a
\* function, with no own enumerable property.
ObjectFunction == [t |-> "function"]

\* The property names an object literal inherits from Object.prototype,
\* as far as a caller passes them for a page id.
InheritedKeys == {"constructor"}

\* table[pageId] on an object literal: an own property, else an inherited
\* one, else undefined.
Lookup(table, pageId) ==
    IF pageId \in DOMAIN table \ {"t"} THEN table[pageId]
    ELSE IF pageId \in InheritedKeys THEN ObjectFunction
    ELSE Undefined

\* { ...SEO_CONFIG, ...config }: the own enumerable properties of config
\* over those of SEO_CONFIG.
WithDefaults(config) ==
    IF config.t = "function" THEN SEO_CONFIG ELSE config @@ SEO_CONFIG

\* createMetaTag(name, content, property): null when content is falsy, else
\* a meta whose content is escaped.
createMetaTag(name, content, property) ==
    IF ~Truthy(content) THEN Null
    ELSE IF Truthy(property)
         THEN Element("meta", [property |-> property, content |-> escape(content)], <<>>)
         ELSE Element("meta", [name |-> name, content |-> escape(content)], <<>>)

\* createLinkTag(rel, href): a link with rel and href set as given.
createLinkTag(rel, href) == Element("link", [rel |-> rel, href |-> href], <<>>)

\* tags.filter(tag => tag !== null)
NonNull(tags) == SelectSeq(tags, LAMBDA tag : tag # Null)

\* createMetaTag(name, content)
Meta(name, content) == createMetaTag(Str(name), content, Null)

\* createMetaTag(name, content, name)
Property(name, content) == createMetaTag(Str(name), content, Str(name))

\* `${config.siteUrl}${path}`
AbsoluteUrl(config, path) == Str(ToChars(Get(config, "siteUrl")) \o ToChars(path))

generateBasicMetaTags(config) ==
    NonNull(
        << Meta(Description, Get(config, "description")),
           Meta(<<"k", "e", "y", "w", "o", "r", "d", "s">>, Get(config, "keywords")),
           Meta(<<"a", "u", "t", "h", "o", "r">>, Get(config, "author")),
           Meta(<<"l", "a", "n", "g", "u", "a", "g", "e">>, Get(config, "language")),
           Meta(<<"r", "o", "b", "o", "t", "s">>, Str(<<"i", "n", "d", "e", "x", ",", " ", "f", "o", "l", "l", "o", "w">>)) >>
        \o (IF Truthy(Get(config, "canonical"))
            THEN <<createLinkTag(Str(<<"c", "a", "n", "o", "n", "i", "c", "a", "l">>), AbsoluteUrl(config, Get(config, "canonical")))>>
            ELSE <<>>))

generateOpenGraphTags(config) ==
    NonNull(
        << Property(<<"o", "g", ":", "t", "i", "t", "l", "e">>, Get(config, "title")),
           Property(<<"o", "g", ":", "d", "e", "s", "c", "r", "i", "p", "t", "i", "o", "n">>, Get(config, "description")),
           Property(<<"o", "g", ":", "t", "y", "p", "e">>, OrElse(Get(config, "type"), Str(<<"w", "e", "b", "s", "i", "t", "e">>))),
           Property(<<"o", "g", ":", "u", "r", "l">>, AbsoluteUrl(config, OrElse(Get(config, "canonical"), Str(UrlHome)))),
           Property(<<"o", "g", ":", "s", "i", "t", "e", "_", "n", "a", "m", "e">>, Get(config, "siteName")),
           Property(<<"o", "g", ":", "i", "m", "a", "g", "e">>, OrElse(Get(config, "image"), Get(config, "defaultImage"))),
           Property(<<"o", "g", ":", "i", "m", "a", "g", "e", ":", "w", "i", "d", "t", "h">>, Str(<<"1", "2", "0", "0">>)),
           Property(<<"o", "g", ":", "i", "m", "a", "g", "e", ":", "h", "e", "i", "g", "h", "t">>, Str(<<"6", "3", "0">>)),
           Property(<<"o", "g", ":", "l", "o", "c", "a", "l", "e">>, Get(config, "locale")) >>)

generateTwitterTags(config) ==
    NonNull(
        << Meta(<<"t", "w", "i", "t", "t", "e", "r", ":", "c", "a", "r", "d">>, Str(<<"s", "u", "m", "m", "a", "r", "y", "_", "l", "a", "r", "g", "e",
                                   "_", "i", "m", "a", "g", "e">>)),
           Meta(<<"t", "w", "i", "t", "t", "e", "r", ":", "s", "i", "t", "e">>, Get(config, "twitterHandle")),
           Meta(<<"t", "w", "i", "t", "t", "e", "r", ":", "c", "r", "e", "a", "t", "o", "r">>, Get(config, "twitterHandle")),
           Meta(<<"t", "w", "i", "t", "t", "e", "r", ":", "t", "i", "t", "l", "e">>, Get(config, "title")),
           Meta(<<"t", "w", "i", "t", "t", "e", "r", ":", "d", "e", "s", "c", "r", "i", "p", "t",
                  "i", "o", "n">>, Get(config, "description")),
           Meta(<<"t", "w", "i", "t", "t", "e", "r", ":", "i", "m", "a", "g", "e">>, OrElse(Get(config, "image"), Get(config, "defaultImage"))) >>)

generateAdditionalMetaTags(config) ==
    NonNull(
        << Meta(<<"t", "h", "e", "m", "e", "-", "c", "o", "l", "o", "r">>, Str(Color667eea)),
           Meta(<<"a", "p", "p", "l", "e", "-", "m", "o", "b", "i", "l", "e", "-", "w", "e", "b",
                  "-", "a", "p", "p", "-", "c", "a", "p", "a", "b", "l", "e">>, Str(<<"y", "e", "s">>)),
           Meta(<<"a", "p", "p", "l", "e", "-", "m", "o", "b", "i", "l", "e", "-", "w", "e", "b",
                  "-", "a", "p", "p", "-", "s", "t", "a", "t", "u", "s", "-",
                  "b", "a", "r", "-", "s", "t", "y", "l", "e">>, Str(<<"d", "e", "f", "a", "u", "l", "t">>)),
           Meta(<<"a", "p", "p", "l", "e", "-", "m", "o", "b", "i", "l", "e", "-", "w", "e", "b",
                  "-", "a", "p", "p", "-", "t", "i", "t", "l", "e">>, Get(config, "siteName")),
           Meta(<<"m", "s", "a", "p", "p", "l", "i", "c", "a", "t", "i", "o", "n", "-", "T", "i",
                  "l", "e", "C", "o", "l", "o", "r">>, Str(Color667eea)),
           Meta(<<"m", "s", "a", "p", "p", "l", "i", "c", "a", "t", "i", "o", "n", "-", "c", "o",
                  "n", "f", "i", "g">>, Str(<<"/", "b", "r", "o", "w", "s", "e", "r", "c", "o", "n", "f", "i",
                                "g", ".", "x", "m", "l">>)),
           Meta(<<"r", "e", "f", "e", "r", "r", "e", "r">>, Str(<<"s", "t", "r", "i", "c", "t", "-", "o", "r", "i", "g", "i", "n",
                                "-", "w", "h", "e", "n", "-", "c", "r", "o", "s", "s", "-",
                                "o", "r", "i", "g", "i", "n">>)) >>)

\* The four tag groups, in the order updateMetaTags appends them.
TagGroups == <<"basic", "openGraph", "twitter", "additional">>

\* The tags of one group for a configuration.
GroupTags(group, config) ==
    CASE group = "basic" -> generateBasicMetaTags(config)
      [] group = "openGraph" -> generateOpenGraphTags(config)
      [] group = "twitter" -> generateTwitterTags(config)
      [] OTHER -> generateAdditionalMetaTags(config)

\* Faulty variant (C14): the selector lacks :not([http-equiv]).
RemovedByMetaSelector_HttpEquivToo(el) ==
    /\ el.tag = "meta"
    /\ ~HasAttr(el, "charset")
    /\ ~AttrIs(el, "name", Viewport)

\* meta:not([charset]):not([name="viewport"]):not([http-equiv])
RemovedByMetaSelector(el) ==
    /\ el.tag = "meta"
    /\ ~HasAttr(el, "charset")
    /\ ~AttrIs(el, "name", Viewport)
    /\ ~HasAttr(el, "http-equiv")

\* Faulty variant (C30): only the preload links are removed.
RemovedByLinkSelector_PreloadOnly(el) ==
    /\ el.tag = "link"
    /\ AttrIs(el, "rel", Preload)

\* link:not([rel="stylesheet"]):not([rel="icon"])
RemovedByLinkSelector(el) ==
    /\ el.tag = "link"
    /\ ~AttrIs(el, "rel", Stylesheet)
    /\ ~AttrIs(el, "rel", Icon)

\* Faulty variant (C12): the existing metas and links are not removed.
WithoutOldTags_KeepsAll(head) == head

\* The head after existingMetas and existingLinks are removed.
WithoutOldTags(head) ==
    SelectSeq(head, LAMBDA el : ~RemovedByMetaSelector(el) /\ ~RemovedByLinkSelector(el))

\* document.title = value: the title is the value converted to a string.
TitleOf(value) == Str(ToChars(value))

\* The page ids a caller passes: the six pages, an id that names no page
\* and a property name that every object inherits.
PageIds ==
    {"home", "services", "about", "contact", "faqs", "mission", "nonexistent", "constructor"}

\* pageConfig of updateMetaTags: PAGE_SEO_CONFIG[pageId] || PAGE_SEO_CONFIG.home
PageConfigOf(pageId) == OrElse(Lookup(PAGE_SEO_CONFIG, pageId), PAGE_SEO_CONFIG.home)

\* allTags of updateMetaTags: the tags of the four groups, generated from
\* the page's configuration over the site's.
AllTags(pageId) ==
    LET fullConfig == WithDefaults(PageConfigOf(pageId))
    IN  Concat([g \in 1..Len(TagGroups) |-> GroupTags(TagGroups[g], fullConfig)])

\* AllTags, tabulated: generation reads the configuration only.
AllTagsOf == [pageId \in PageIds |-> AllTags(pageId)]

\* updateMetaTags(pageId) on document D.  failing holds the tag groups whose
\* generator returns an Error (escape or createElement threw in it).
updateMetaTags(D, pageId, failing) ==
    LET kept == WithoutOldTags(D.head)
        allTags == AllTagsOf[pageId]
        cleared == [title |-> TitleOf(Get(PageConfigOf(pageId), "title")), head |-> kept]
    IN  IF failing # {}
        THEN [D |-> cleared, result |-> Error("Failed to generate meta tags")]
        ELSE [D |-> [cleared EXCEPT !.head = kept \o allTags],
              result |-> Success(Num(100 * Len(allTags)))]

\* getPageSEOConfig(pageId): the page's configuration over the site's, the
\* home page's when the lookup gives nothing.
getPageSEOConfig(pageId) ==
    LET found == Lookup(PAGE_SEO_CONFIG, pageId)
    IN  IF Nullish(found) THEN WithDefaults(PAGE_SEO_CONFIG.home) ELSE WithDefaults(found)

(* ------------------------------- schemas ------------------------------ *)

SchemaOrg ==
    <<"h", "t", "t", "p", "s", ":", "/", "/", "s", "c", "h", "e", "m", "a",
      ".", "o", "r", "g">>
OrganizationType ==
    <<"O", "r", "g", "a", "n", "i", "z", "a", "t", "i", "o", "n">>

\* A schema document, as far as any code reads it: its "@context" and its
\* "@type".  The other properties are literal data.
SchemaDocument(type) ==
    ("@context" :> Str(SchemaOrg)) @@ ("@type" :> Str(type)) @@ [t |-> "object"]

generateOrganizationSchema == Success(SchemaDocument(OrganizationType))

generateWebsiteSchema == Success(SchemaDocument(<<"W", "e", "b", "S", "i", "t", "e">>))

generateServiceSchemas == Success(SchemaDocument(<<"I", "t", "e", "m", "L", "i", "s", "t">>))

generateFAQSchema == Success(SchemaDocument(<<"F", "A", "Q", "P", "a", "g", "e">>))

generateOfferingSchema == Success(SchemaDocument(<<"P", "r", "o", "d", "u", "c", "t">>))

generateLocalBusinessSchema == Success(SchemaDocument(<<"P", "r", "o", "f", "e", "s", "s", "i", "o", "n", "a", "l",
                                                        "S", "e", "r", "v", "i", "c", "e">>))

\* The generators that PAGE_SCHEMAS calls.
Generators ==
    {"generateOrganizationSchema", "generateWebsiteSchema", "generateServiceSchemas",
     "generateFAQSchema", "generateOfferingSchema", "generateLocalBusinessSchema"}

\* The Result of calling a generator; an Error when it is among failing
\* (its body threw).
CallGenerator(generator, failing) ==
    IF generator \in failing THEN Error("schema generation failed")
    ELSE CASE generator = "generateOrganizationSchema" -> generateOrganizationSchema
           [] generator = "generateWebsiteSchema" -> generateWebsiteSchema
           [] generator = "generateServiceSchemas" -> generateServiceSchemas
           [] generator = "generateFAQSchema" -> generateFAQSchema
           [] generator = "generateOfferingSchema" -> generateOfferingSchema
           [] OTHER -> generateLocalBusinessSchema

\* An arrow function of PAGE_SCHEMAS: calling it calls these generators in
\* turn and returns their Results.
SchemaList(generators) == [t |-> "function", generators |-> generators]

\* PAGE_SCHEMAS: the generators of each of the six pages.
PAGE_SCHEMAS ==
    [t |-> "object",
     home |-> SchemaList(<<"generateOrganizationSchema", "generateWebsiteSchema",
                           "generateOfferingSchema">>),
     services |-> SchemaList(<<"generateOrganizationSchema", "generateServiceSchemas",
                               "generateOfferingSchema">>),
     about |-> SchemaList(<<"generateOrganizationSchema", "generateLocalBusinessSchema">>),
     contact |-> SchemaList(<<"generateOrganizationSchema", "generateLocalBusinessSchema">>),
     faqs |-> SchemaList(<<"generateOrganizationSchema", "generateFAQSchema">>),
     mission |-> SchemaList(<<"generateOrganizationSchema">>)]

\* One character of a JSON string literal: quote and backslash are escaped.
JsonChar(c) == IF c \in {"\"", "\\"} THEN <<"\\", c>> ELSE <<c>>

\* The characters of a string, as JSON.stringify writes them between quotes.
RECURSIVE JsonChars(_)
JsonChars(chars) ==
    IF Len(chars) = 0 THEN <<>>
    ELSE IF Len(chars) = 1 THEN JsonChar(chars[1])
    ELSE LET half == Len(chars) \div 2
         IN  JsonChars(SubSeq(chars, 1, half))
             \o JsonChars(SubSeq(chars, half + 1, Len(chars)))

\* A JSON string literal.
JsonString(chars) == <<"\"">> \o JsonChars(chars) \o <<"\"">>

\* JSON.stringify(schemaData, null, 2) of a schema document: one line per
\* property, indented by two spaces.
JsonStringify(schemaData) ==
    <<"{", "\n">>
    \o <<" ", " ">> \o JsonString(<<"@", "c", "o", "n", "t", "e", "x", "t">>) \o <<":", " ">>
    \o JsonString(schemaData["@context"].s) \o <<",", "\n">>
    \o <<" ", " ">> \o JsonString(<<"@", "t", "y", "p", "e">>) \o <<":", " ">>
    \o JsonString(schemaData["@type"].s) \o <<"\n", "}">>

\* The script that insertSchemaScript appends: JSON-LD, marked
\* data-schema="true".
SchemaScript(schemaData) ==
    Element("script",
            [type |-> Str(LdJson)] @@ ("data-schema" :> Str(TrueChars)),
            JsonStringify(schemaData))

\* SchemaScript, tabulated over the documents the generators return.
SchemaScriptOf ==
    [schemaData \in {CallGenerator(generator, {}).value : generator \in Generators} |->
        SchemaScript(schemaData)]

\* Faulty variant (C16): every JSON-LD script is selected, marked or not.
SelectedAsSchema_AnyLdJson(el) == el.tag = "script" /\ AttrIs(el, "type", LdJson)

\* script[data-schema="true"]
SelectedAsSchema(el) == el.tag = "script" /\ AttrIs(el, "data-schema", TrueChars)

\* Faulty variant (C24): the schema scripts of the page before stay.
WithoutSchemas_KeepsAll(head) == head

\* The head after removeExistingSchemas.
WithoutSchemas(head) == SelectSeq(head, LAMBDA el : ~SelectedAsSchema(el))

\* updatePageSchemas(pageId) on document D.  failing holds the generators
\* whose Result is an Error.  An inherited property of PAGE_SCHEMAS is not
\* one of its arrow functions: what it returns cannot be iterated.
updatePageSchemas(D, pageId, failing) ==
    LET cleared == [D EXCEPT !.head = WithoutSchemas(D.head)]
        schemaGenerators == OrElse(Lookup(PAGE_SCHEMAS, pageId), PAGE_SCHEMAS.home)
    IN  IF "generators" \notin DOMAIN schemaGenerators
        THEN [D |-> cleared, result |-> Error("schemas is not iterable")]
        ELSE LET schemas == [i \in 1..Len(schemaGenerators.generators) |->
                                CallGenerator(schemaGenerators.generators[i], failing)]
                 inserted == SelectSeq(schemas, LAMBDA schemaResult : schemaResult.type # "Error")
             IN  [D |-> [cleared EXCEPT !.head =
                            @ \o [i \in 1..Len(inserted) |-> SchemaScriptOf[inserted[i].value]]],
                  result |-> Success(Num(100 * Len(inserted)))]

\* typeof schemaData === 'object'
IsObject(v) == v.t \in {"object", "null"}

\* !schemaData['@context'] || !schemaData['@type']
MissingContextOrType(schemaData) ==
    ~Truthy(Get(schemaData, "@context")) \/ ~Truthy(Get(schemaData, "@type"))

\* validateSchema(schemaData)
validateSchema(schemaData) ==
    IF ~Truthy(schemaData) \/ ~IsObject(schemaData)
    THEN Error("Schema data must be an object")
    ELSE IF MissingContextOrType(schemaData)
    THEN Error("Schema must have @context and @type properties")
    ELSE Success(Bool(TRUE))

(* ----------------------------- orchestrator --------------------------- *)

\* The page views kept in session storage: existingData.slice(-50).
KeptPageViews == 50

\* Faulty variant (C29): the first n elements are kept (slice(0, n)).
LastN_First(s, n) == IF Len(s) <= n THEN s ELSE SubSeq(s, 1, n)

\* s.slice(-n): the last n elements of s, all of them when there are fewer.
LastN(s, n) == IF Len(s) <= n THEN s ELSE SubSeq(s, Len(s) - n + 1, Len(s))

\* window.location.href: the origin of the site and the path.
Href(loc) == Str(siteUrl \o loc.pathname)

\* JSON.stringify(list): the stored form of a list of page views, which
\* JSON.parse gives back.
JsonList(items) == [t |-> "json", items |-> items]

\* JSON.parse(sessionStorage.getItem('seo_analytics') || '[]'): the stored
\* list, empty when the key was never set.
StoredPageViews(storage) ==
    IF storage.seo_analytics.t = "null" THEN <<>> ELSE storage.seo_analytics.items

\* AnalyticsUtils.trackPageView(pageId, additionalData) in browser state W.
\* The page view takes url and title from the browser as it is now; of its
\* fields, userAgent, referrer and viewport are values of the browser that
\* no operation here changes.  throws: gtag or the storage threw before
\* setItem, and the Result is an Error.
trackPageView(W, pageId, additionalData, throws) ==
    LET pageViewData == [pageId |-> pageId,
                         url |-> Href(W.location),
                         title |-> W.document.title,
                         timestamp |-> Str(NowISO)] @@ additionalData
        existingData == Append(StoredPageViews(W.sessionStorage), pageViewData)
        recentData == LastN(existingData, KeptPageViews)
    IN  IF throws
        THEN [W |-> W, result |-> Error("page view not tracked")]
        ELSE [W |-> [W EXCEPT !.sessionStorage.seo_analytics = JsonList(recentData)],
              result |-> Success(pageViewData)]

\* Faulty variant (C20): pushState is called whatever the current path is.
PathDiffers_Always(currentPath, newPath) == TRUE

\* currentPath !== newPath
PathDiffers(currentPath, newPath) == currentPath # newPath

\* window.history.pushState(state, title, url): a new entry, and the
\* location is at url.
pushState(W, state, title, url) ==
    [W EXCEPT !.history.pushed = Append(@, [state |-> state, title |-> title, url |-> url]),
              !.location.pathname = url]

\* updateBrowserHistory(pageId) in browser state W: pushes the page's
\* canonical path when the history API is there and the location is not at
\* that path already.  throws: pushState, when it is called, throws (as it
\* does in a sandboxed or rate-limited context) and the Result is an Error.
updateBrowserHistory(W, pageId, throws) ==
    LET pageConfig == getPageSEOConfig(pageId)
        canonicalPath == OrElse(Get(pageConfig, "canonical"), Str(UrlHome))
        currentPath == W.location.pathname
        newPath == canonicalPath.s
        called == W.history.pushState /\ PathDiffers(currentPath, newPath)
    IN  IF called /\ throws
        THEN [W |-> W, result |-> Error("history not updated")]
        ELSE [W |-> IF called
                    THEN pushState(W, [pageId |-> pageId], Get(pageConfig, "title"), newPath)
                    ELSE W,
              result |-> Success(canonicalPath)]

\* What fails during one call, by the environment's doing: tag groups whose
\* generator returns an Error, schema generators that do, whether pushState
\* throws, and whether trackPageView throws.
Fault(tags, generators, pushing, analytics) ==
    [tags |-> tags, generators |-> generators, history |-> pushing,
     analytics |-> analytics]

NoFault == Fault({}, {}, FALSE, FALSE)

\* Faulty variant (C27): a failure to update the meta tags is logged and
\* the update goes on.
MetaFailed_Ignored(metaResult) == FALSE

\* metaResult.type === 'Error'
MetaFailed(metaResult) == metaResult.type = "Error"

\* Faulty variant (C19): a failure to update the schemas is logged and the
\* update goes on.
SchemasFailed_Ignored(schemaResult) == FALSE

\* schemaResult.type === 'Error'
SchemasFailed(schemaResult) == schemaResult.type = "Error"

\* Faulty variant (C21): the Error of the page view is handed to the caller.
Summary_UnlessAnalyticsFailed(pageId, metaResult, schemaResult, analyticsResult) ==
    IF analyticsResult.type = "Error"
    THEN analyticsResult
    ELSE Success([pageId |-> pageId,
                  metaTags |-> Get(metaResult, "value"),
                  schemas |-> Get(schemaResult, "value"),
                  timestamp |-> Str(NowISO)])

\* The value updatePageSEO returns when both components succeeded: the page
\* id, the two counts and the time.  analyticsResult is assigned and never
\* read.
Summary(pageId, metaResult, schemaResult, analyticsResult) ==
    Success([pageId |-> pageId,
             metaTags |-> Get(metaResult, "value"),
             schemas |-> Get(schemaResult, "value"),
             timestamp |-> Str(NowISO)])

\* updatePageSEO(pageId) in browser state W: meta tags, then schemas, then
\* the history, then the page view; the first two abort the update when
\* they fail, the Results of the last two are not looked at.
updatePageSEO(W, pageId, fault) ==
    LET meta == updateMetaTags(W.document, pageId, fault.tags)
        schema == updatePageSchemas(meta.D, pageId, fault.generators)
        W1 == [W EXCEPT !.document = meta.D]
        W2 == [W EXCEPT !.document = schema.D]
        hist == updateBrowserHistory(W2, pageId, fault.history)
        analytics == trackPageView(hist.W, pageId,
                                   [seoMetaTags |-> Get(meta.result, "value"),
                                    seoSchemas |-> Get(schema.result, "value")],
                                   fault.analytics)
    IN  IF MetaFailed(meta.result)
        THEN [W |-> W1,
              result |-> Error(<<"Failed to update meta tags", meta.result.error>>)]
        ELSE IF SchemasFailed(schema.result)
        THEN [W |-> W2,
              result |-> Error(<<"Failed to update schemas", schema.result.error>>)]
        ELSE [W |-> analytics.W,
              result |-> Summary(pageId, meta.result, schema.result, analytics.result)]

(* --------------------- actions on the document ------------------------ *)

\* At most this many page views are stored, and at most this many history
\* entries pushed, in the runs explored.
MaxUpdates == 2

\* One tag group fails, or none.
TagFaults == {{}} \cup {{TagGroups[g]} : g \in 1..Len(TagGroups)}

\* One schema generator fails, or none.
GeneratorFaults == {{}} \cup {{generator} : generator \in Generators}

\* The browser state as one record.
Browser ==
    [document |-> document, location |-> location,
     history |-> history, sessionStorage |-> sessionStorage]

\* The page as served, with or without the elements of an earlier
\* rendering.
DocInit ==
    /\ SITE_STRUCTURE = [pages |-> StaticPages, dynamicPages |-> <<>>]
    /\ lastCall = [op |-> "load"]
    /\ lastResult = Success(Undefined)
    /\ \E head \in LoadedHeads : PageLoaded(head, TRUE)

UpdateMetaTags ==
    \E pageId \in PageIds, failing \in TagFaults :
        LET r == updateMetaTags(document, pageId, failing)
        IN  /\ document' = r.D
            /\ lastCall' = [op |-> "updateMetaTags", arg |-> pageId, failing |-> failing]
            /\ lastResult' = r.result
            /\ UNCHANGED <<SITE_STRUCTURE, location, history, sessionStorage>>

UpdatePageSchemas ==
    \E pageId \in PageIds, failing \in GeneratorFaults :
        LET r == updatePageSchemas(document, pageId, failing)
        IN  /\ document' = r.D
            /\ lastCall' = [op |-> "updatePageSchemas", arg |-> pageId, failing |-> failing]
            /\ lastResult' = r.result
            /\ UNCHANGED <<SITE_STRUCTURE, location, history, sessionStorage>>

GetPageSEOConfig ==
    \E pageId \in PageIds :
        /\ lastCall' = [op |-> "getPageSEOConfig", arg |-> pageId]
        /\ lastResult' = getPageSEOConfig(pageId)
        /\ UNCHANGED <<SITE_STRUCTURE, browserVars>>

\* Schema data a caller passes to validateSchema: values that are no
\* object, an array, objects that lack "@context" or "@type" or carry an
\* empty one, a generated document, a document of another vocabulary, and
\* a document whose "@type" is a number.
Thing == <<"T", "h", "i", "n", "g">>

SchemaInputs ==
    {Undefined, Null, Str(Thing), Num(100), Str(<<>>),
     [t |-> "object"],
     ("@context" :> Str(SchemaOrg)) @@ [t |-> "object"],
     ("@type" :> Str(Thing)) @@ [t |-> "object"],
     ("@context" :> Str(SchemaOrg)) @@ ("@type" :> Str(<<>>)) @@ [t |-> "object"],
     ("@context" :> Str(<<>>)) @@ ("@type" :> Str(Thing)) @@ [t |-> "object"],
     SchemaDocument(OrganizationType),
     SchemaDocument(Thing) @@ [name |-> Undefined, offers |-> [t |-> "object"]],
     ("@context" :> Str(<<"h", "t", "t", "p", "s", ":", "/", "/", "e", "x", "a", "m", "p", "l",
                          "e", ".", "o", "r", "g">>)) @@ ("@type" :> Str(Thing)) @@ [t |-> "object"],
     ("@context" :> Str(SchemaOrg)) @@ ("@type" :> Num(500)) @@ [t |-> "object"]}

ValidateSchema ==
    \E schemaData \in SchemaInputs :
        /\ lastCall' = [op |-> "validateSchema", arg |-> schemaData]
        /\ lastResult' = validateSchema(schemaData)
        /\ UNCHANGED <<SITE_STRUCTURE, browserVars>>

MetaNext == UpdateMetaTags \/ GetPageSEOConfig

\* The document under any sequence of calls of the meta-tag manager.
MetaSpec == DocInit /\ [][MetaNext]_vars

SchemaNext == UpdatePageSchemas \/ ValidateSchema

\* The document under any sequence of calls of the schema manager.
SchemaSpec == DocInit /\ [][SchemaNext]_vars

(* --------------------- actions of the orchestrator -------------------- *)

\* What fails during a call of updatePageSEO: nothing, a tag group, a
\* schema generator, or both pushState and the tracking of the page view.
SeoFaults ==
    {NoFault,
     Fault({"basic"}, {}, FALSE, FALSE),
     Fault({}, {"generateOrganizationSchema"}, FALSE, FALSE),
     Fault({}, {}, TRUE, TRUE)}

\* The page ids passed to updatePageSEO: three of the six pages, an id that
\* names no page and the inherited property name.
SeoPageIds == {"home", "services", "mission", "nonexistent", "constructor"}

\* The page as served with the elements of an earlier rendering, in a
\* browser with or without history.pushState.
SeoInit ==
    /\ SITE_STRUCTURE = [pages |-> StaticPages, dynamicPages |-> <<>>]
    /\ lastCall = [op |-> "load"]
    /\ lastResult = Success(Undefined)
    /\ \E pushStateThere \in BOOLEAN : PageLoaded(ServedHead \o StaleHead, pushStateThere)

UpdatePageSEO ==
    \E pageId \in SeoPageIds, fault \in SeoFaults :
        LET r == updatePageSEO(Browser, pageId, fault)
        IN  /\ Len(StoredPageViews(sessionStorage)) < MaxUpdates
            /\ Len(history.pushed) < MaxUpdates
            /\ document' = r.W.document
            /\ location' = r.W.location
            /\ history' = r.W.history
            /\ sessionStorage' = r.W.sessionStorage
            /\ lastCall' = [op |-> "updatePageSEO", arg |-> pageId, fault |-> fault]
            /\ lastResult' = r.result
            /\ UNCHANGED SITE_STRUCTURE

SeoNext == UpdatePageSEO

\* The browser under any sequence of calls of updatePageSEO.
SeoSpec == SeoInit /\ [][SeoNext]_vars

(* ------------------------- meta tag properties ------------------------ *)

\* The six pages that PAGE_SEO_CONFIG and PAGE_SCHEMAS define.
ConfiguredPages == {"home", "services", "about", "contact", "faqs", "mission"}

MetaSucceeded(call, result) == call.op = "updateMetaTags" /\ result.type = "Success"

\* A meta that does not carry charset, name="viewport" or http-equiv, or a
\* link that is neither rel="stylesheet" nor rel="icon".
IsSeoTag(el) ==
    \/ /\ el.tag = "meta"
       /\ "charset" \notin DOMAIN el.attrs
       /\ "http-equiv" \notin DOMAIN el.attrs
       /\ ~("name" \in DOMAIN el.attrs /\ el.attrs["name"].s = Viewport)
    \/ /\ el.tag = "link"
       /\ ~("rel" \in DOMAIN el.attrs /\ el.attrs["rel"].s \in {Stylesheet, Icon})

\* The metas and links that are no SEO tags.
IsKeptTag(el) == el.tag \in {"meta", "link"} /\ ~IsSeoTag(el)

SeoTagsIn(head) == SelectSeq(head, IsSeoTag)

\* No SEO tag occurs twice in head.
NoDuplicateTags(head) ==
    \A i, j \in 1..Len(head) : (i < j /\ IsSeoTag(head[i])) => head[i] # head[j]

\* C12: updateMetaTags(pageId) is idempotent: calling it again right after a
\* successful call leaves the title and the head as the first call left
\* them and returns the same count, and the head holds no tag twice.
C12_UpdateMetaTagsIdempotent ==
    [][ MetaSucceeded(lastCall', lastResult')
        => LET again == updateMetaTags(document', lastCall'.arg, {})
           IN  /\ again.D.title = document'.title
               /\ again.D.head = document'.head
               /\ again.result = lastResult'
               /\ NoDuplicateTags(document'.head)
               /\ lastResult'.value = Num(100 * Len(SeoTagsIn(document'.head))) ]_vars

\* C12's case: updateMetaTags('services') has succeeded; the head holds its
\* 28 tags and the title is the page's.
C12_Witness ==
    /\ MetaSucceeded(lastCall, lastResult)
    /\ lastCall.arg = "services"
    /\ lastResult.value = Num(2800)
    /\ Len(SeoTagsIn(document.head)) = 28
    /\ document.title = PAGE_SEO_CONFIG.services.title

\* C13: for a page id that is none of the six pages, getPageSEOConfig and
\* updateMetaTags succeed and produce what they produce for 'home': the same
\* configuration, and from the same document the same document and count.
C13_UnknownPageIdBehavesAsHome ==
    [][ lastCall'.op \in {"getPageSEOConfig", "updateMetaTags"}
        /\ lastCall'.arg \notin ConfiguredPages
        => IF lastCall'.op = "getPageSEOConfig"
           THEN lastResult' = getPageSEOConfig("home")
           ELSE LET home == updateMetaTags(document, "home", lastCall'.failing)
                IN  /\ lastCall'.failing = {} => lastResult'.type = "Success"
                    /\ lastResult' = home.result
                    /\ document' = home.D ]_vars

PassedThroughEscape(value) == "escaped" \in DOMAIN value

\* C15: after a successful updateMetaTags, the content of every meta it
\* generated and the href of the canonical link it generated have passed
\* through escape.
C15_AssignedTextIsEscaped ==
    MetaSucceeded(lastCall, lastResult)
    => \A i \in 1..Len(document.head) :
          LET el == document.head[i]
          IN  IsSeoTag(el)
              => /\ el.tag = "meta" => PassedThroughEscape(el.attrs["content"])
                 /\ el.tag = "link" => PassedThroughEscape(el.attrs["href"])

(* -------------------------- schema properties ------------------------- *)

SchemasSucceeded(call, result) == call.op = "updatePageSchemas" /\ result.type = "Success"

\* A script that carries data-schema="true".
IsMarkedScript(el) ==
    /\ el.tag = "script"
    /\ "data-schema" \in DOMAIN el.attrs
    /\ el.attrs["data-schema"].s = TrueChars

IsNotMarkedScript(el) == ~IsMarkedScript(el)

\* The generators of a page id for which the call succeeds: the page's own,
\* home's for an id that names nothing.
GeneratorsOf(pageId) ==
    IF pageId \in ConfiguredPages THEN PAGE_SCHEMAS[pageId].generators
    ELSE PAGE_SCHEMAS.home.generators

\* C16: after updatePageSchemas(p) succeeds, from whatever the head held, the
\* scripts marked data-schema="true" are exactly the scripts this call
\* inserted (one per generator of p that did not fail, in order), their
\* number is the returned count, and every other element of the head is as
\* it was.
C16_MarkedScriptsAreThisCalls ==
    [][ SchemasSucceeded(lastCall', lastResult')
        => LET marked == SelectSeq(document'.head, IsMarkedScript)
               ran == SelectSeq(GeneratorsOf(lastCall'.arg),
                                LAMBDA generator : generator \notin lastCall'.failing)
           IN  /\ marked = [i \in 1..Len(ran) |-> SchemaScript(CallGenerator(ran[i], {}).value)]
               /\ lastResult'.value = Num(100 * Len(marked))
               /\ SelectSeq(document'.head, IsNotMarkedScript)
                      = SelectSeq(document.head, IsNotMarkedScript)
               /\ document'.title = document.title ]_vars

\* C16's case: updatePageSchemas('services') has inserted its three scripts;
\* the hand-written JSON-LD script is still in the head.
C16_Witness ==
    /\ SchemasSucceeded(lastCall, lastResult)
    /\ lastCall.arg = "services"
    /\ lastResult.value = Num(300)
    /\ Len(SelectSeq(document.head, IsMarkedScript)) = 3
    /\ ForeignScript \in {document.head[i] : i \in 1..Len(document.head)}

\* C17: for each of the six pages, when exactly one of the page's
\* generators fails, updatePageSchemas succeeds, skips only that schema and
\* leaves at least one schema script: the count is the number of the page's
\* generators less one, and at least 1.
C17_OneFailureLeavesASchema ==
    ( /\ lastCall.op = "updatePageSchemas"
      /\ lastCall.arg \in ConfiguredPages
      /\ Cardinality(lastCall.failing) = 1
      /\ \E i \in 1..Len(GeneratorsOf(lastCall.arg)) :
            GeneratorsOf(lastCall.arg)[i] \in lastCall.failing )
    => /\ lastResult.type = "Success"
       /\ lastResult.value = Num(100 * (Len(GeneratorsOf(lastCall.arg)) - 1))
       /\ lastResult.value.n >= 100
       /\ Len(SelectSeq(document.head, IsMarkedScript)) >= 1

\* C18's condition: an object whose "@context" is "https://schema.org" and
\* whose "@type" is a non-empty string.
WellFormedSchema(schemaData) ==
    /\ schemaData.t = "object"
    /\ "@context" \in DOMAIN schemaData /\ schemaData["@context"] = Str(SchemaOrg)
    /\ "@type" \in DOMAIN schemaData
    /\ schemaData["@type"].t = "string" /\ schemaData["@type"].s # <<>>

\* C18: validateSchema(doc) returns a Success exactly when doc is an object
\* with "@context" equal to "https://schema.org" and a non-empty "@type",
\* and an Error otherwise.
C18_ValidIffSchemaOrgAndType ==
    lastCall.op = "validateSchema"
    => /\ lastResult.type \in {"Success", "Error"}
       /\ (lastResult.type = "Success") <=> WellFormedSchema(lastCall.arg)

(* ----------------------- orchestrator properties ---------------------- *)

SeoCalled(call) == call.op = "updatePageSEO"

SeoSucceeded(call, result) == SeoCalled(call) /\ result.type = "Success"

\* C19: updatePageSEO returns an Error whenever updateMetaTags or
\* updatePageSchemas returns one; when the meta tags succeeded and the
\* schemas failed, the title and the meta tags the first step wrote are
\* still in the document.
C19_FailsWhenAComponentFails ==
    [][ SeoCalled(lastCall')
        => LET meta == updateMetaTags(document, lastCall'.arg, lastCall'.fault.tags)
               schema == updatePageSchemas(meta.D, lastCall'.arg, lastCall'.fault.generators)
           IN  /\ (meta.result.type = "Error" \/ schema.result.type = "Error")
                      => lastResult'.type = "Error"
               /\ (meta.result.type = "Success" /\ schema.result.type = "Error")
                      => /\ document'.title = TitleOf(Get(PageConfigOf(lastCall'.arg), "title"))
                         /\ SeoTagsIn(document'.head) = AllTags(lastCall'.arg)
                         /\ Len(SeoTagsIn(document'.head)) * 100 = meta.result.value.n ]_vars

\* C19's case: updatePageSEO('constructor') has failed on the schemas after
\* the meta tags succeeded: the 21 tags are in the head.
C19_Witness ==
    /\ SeoCalled(lastCall)
    /\ lastCall.arg = "constructor"
    /\ lastCall.fault = NoFault
    /\ lastResult.type = "Error"
    /\ lastResult.error[1] = "Failed to update schemas"
    /\ Len(SeoTagsIn(document.head)) = 21

\* The canonical path that updatePageSEO resolves for a page id.
CanonicalPathOf(pageId) ==
    IF pageId \in ConfiguredPages THEN PAGE_SEO_CONFIG[pageId].canonical.s ELSE UrlHome

\* What a successful updatePageSEO does to the history when pushState is
\* there: one entry for the canonical path exactly when the location was not
\* at it, the location at the canonical path afterwards, and nothing more
\* pushed by the same call made again.
PushesCanonicalOnce ==
    LET canonical == CanonicalPathOf(lastCall'.arg)
        again == updatePageSEO(Browser', lastCall'.arg, NoFault)
    IN  /\ IF location.pathname # canonical
           THEN /\ Len(history'.pushed) = Len(history.pushed) + 1
                /\ SubSeq(history'.pushed, 1, Len(history.pushed)) = history.pushed
                /\ history'.pushed[Len(history'.pushed)].url = canonical
           ELSE history'.pushed = history.pushed
        /\ location'.pathname = canonical
        /\ again.result.type = "Success"
        /\ again.W.history.pushed = history'.pushed

\* C20 as stated: every successful updatePageSEO pushes the canonical path
\* exactly when the location is not at it, and leaves the location there.
C20_PushesWhenPathDiffers ==
    [][ SeoSucceeded(lastCall', lastResult') => PushesCanonicalOnce ]_vars

\* C20: where window.history.pushState exists and does not throw, a
\* successful updatePageSEO pushes the canonical path exactly when the
\* location is not at it, leaves the location there, and pushes nothing
\* when repeated; where it does not exist or throws, history and location
\* stay as they were.
C20_PushesWhenPathDiffersAndPushStateExists ==
    [][ SeoSucceeded(lastCall', lastResult')
        => IF history.pushState /\ ~lastCall'.fault.history
           THEN PushesCanonicalOnce
           ELSE history' = history /\ location' = location ]_vars

\* C20's case: updatePageSEO('services') has succeeded a second time in a
\* row: one entry was pushed, for '/services', and the location is there.
C20_Witness ==
    /\ SeoSucceeded(lastCall, lastResult)
    /\ lastCall.arg = "services"
    /\ history.pushState
    /\ Len(history.pushed) = 1
    /\ history.pushed[1].url = UrlServices
    /\ location.pathname = UrlServices
    /\ Len(StoredPageViews(sessionStorage)) = 2

\* C21: whenever updateMetaTags and updatePageSchemas both succeed,
\* updatePageSEO returns a success summary that carries the page id and
\* their two counts, whether or not pushState or the tracking of the page
\* view fails during the call.
C21_SucceedsWhenBothComponentsDo ==
    [][ SeoCalled(lastCall')
        => LET meta == updateMetaTags(document, lastCall'.arg, lastCall'.fault.tags)
               schema == updatePageSchemas(meta.D, lastCall'.arg, lastCall'.fault.generators)
           IN  (meta.result.type = "Success" /\ schema.result.type = "Success")
                   => /\ lastResult'.type = "Success"
                      /\ lastResult'.value.pageId = lastCall'.arg
                      /\ lastResult'.value.metaTags = meta.result.value
                      /\ lastResult'.value.schemas = schema.result.value ]_vars

\* C21's case: updatePageSEO('services') has succeeded although pushState
\* threw and the page view could not be tracked: the summary carries 28
\* tags and 3 schemas, the location is where it was and no page view is
\* stored.
C21_Witness ==
    /\ SeoSucceeded(lastCall, lastResult)
    /\ lastCall.arg = "services"
    /\ lastCall.fault.history /\ lastCall.fault.analytics
    /\ history.pushState
    /\ lastResult.value.metaTags = Num(2800)
    /\ lastResult.value.schemas = Num(300)
    /\ document.title = PAGE_SEO_CONFIG.services.title
    /\ location.pathname = UrlHome
    /\ history.pushed = <<>>
    /\ StoredPageViews(sessionStorage) = <<>>

(* --------------------------- live document health --------------------- *)

\* The [attr^="prefix"] selector and String.prototype.startsWith.
HasPrefix(chars, prefix) ==
    Len(chars) >= Len(prefix) /\ SubSeq(chars, 1, Len(prefix)) = prefix

\* document.querySelectorAll('tag[attr="chars"]'), in document order.
Matching(D, tag, attr, chars) ==
    SelectSeq(D.head, LAMBDA el : el.tag = tag /\ AttrIs(el, attr, chars))

\* document.querySelectorAll('meta[attr^="prefix"]')
MetasWithPrefix(D, attr, prefix) ==
    SelectSeq(D.head, LAMBDA el : /\ el.tag = "meta"
                                  /\ HasAttr(el, attr)
                                  /\ HasPrefix(el.attrs[attr].s, prefix))

\* document.querySelector(...)?.content || '' for the elements a selector
\* matches: the content attribute of the first, '' when there is none.
ContentOf(elements) ==
    IF elements = <<>> \/ ~HasAttr(elements[1], "content") THEN <<>>
    ELSE elements[1].attrs["content"].s

\* document.querySelector(...)?.href || '' for the links a selector
\* matches: '' when the first has no href attribute, else its href resolved
\* against the location of the document.
HrefOf(elements, loc) ==
    IF elements = <<>> \/ ~HasAttr(elements[1], "href") THEN <<>>
    ELSE LET href == elements[1].attrs["href"].s
         IN  IF href = <<>> THEN siteUrl \o loc.pathname
             ELSE IF StartsWithSlash(href) THEN siteUrl \o href
             ELSE href

CanonicalLinks(D) == Matching(D, "link", "rel", <<"c", "a", "n", "o", "n", "i", "c", "a", "l">>)

\* Faulty variant (C22): two issues are already critical.
HealthStatus_TwoIsCritical(issues) ==
    IF Len(issues) = 0 THEN "healthy" ELSE IF Len(issues) < 2 THEN "warning" ELSE "critical"

\* issues.length === 0 ? 'healthy' : issues.length <= 2 ? 'warning' : 'critical'
HealthStatus(issues) ==
    IF Len(issues) = 0 THEN "healthy" ELSE IF Len(issues) <= 2 THEN "warning" ELSE "critical"

\* getSEOHealth() in browser state W.  Fixed labels and messages are written
\* as they are in the code.  Of the report, schemas.types and performance
\* are left out: the first is a list computed inside its own try/catch, the
\* second holds timings of the browser; neither is read again.
getSEOHealth(W) ==
    LET D == W.document
        hasDescription == Matching(D, "meta", "name", Description) # <<>>
        hasKeywords == Matching(D, "meta", "name", <<"k", "e", "y", "w", "o", "r", "d", "s">>) # <<>>
        hasOG == MetasWithPrefix(D, "property", <<"o", "g", ":">>) # <<>>
        hasTwitter == MetasWithPrefix(D, "name", <<"t", "w", "i", "t", "t", "e", "r", ":">>) # <<>>
        count == Len(Matching(D, "script", "type", LdJson))
        href == HrefOf(CanonicalLinks(D), W.location)
        canonicalUrl == IF href = <<>> THEN <<"N", "o", "t", " ", "s", "e", "t">> ELSE href
        issues == (IF ~hasDescription THEN <<"Missing meta description">> ELSE <<>>)
                  \o (IF ~hasOG THEN <<"Missing Open Graph tags">> ELSE <<>>)
                  \o (IF count = 0 THEN <<"No structured data found">> ELSE <<>>)
                  \o (IF canonicalUrl = <<"N", "o", "t", " ", "s", "e", "t">>
                      THEN <<"Missing canonical URL">> ELSE <<>>)
        penalty == Len(issues) * 20
    IN  Success([metaTags |-> [status |-> "healthy",
                               count |-> Num(100 * Len(SelectSeq(D.head, LAMBDA el : el.tag = "meta"))),
                               hasDescription |-> Bool(hasDescription),
                               hasKeywords |-> Bool(hasKeywords),
                               hasOG |-> Bool(hasOG),
                               hasTwitter |-> Bool(hasTwitter)],
                 schemas |-> [status |-> "healthy", count |-> Num(100 * count)],
                 navigation |-> [status |-> "healthy",
                                 currentPage |-> Str(W.location.pathname),
                                 canonicalUrl |-> Str(canonicalUrl),
                                 title |-> D.title],
                 overall |-> [status |-> HealthStatus(issues),
                              issues |-> issues,
                              score |-> Num(100 * (IF penalty > 100 THEN 0 ELSE 100 - penalty))]])

\* Faulty variant (C23): 60 is not yet good.
ScoreLabel_GoodAbove60(score) ==
    IF score >= 80 THEN "excellent"
    ELSE IF score > 60 THEN "good"
    ELSE IF score >= 40 THEN "needs-improvement"
    ELSE "poor"

\* score >= 80 ? 'excellent' : score >= 60 ? 'good'
\*     : score >= 40 ? 'needs-improvement' : 'poor'
ScoreLabel(score) ==
    IF score >= 80 THEN "excellent"
    ELSE IF score >= 60 THEN "good"
    ELSE IF score >= 40 THEN "needs-improvement"
    ELSE "poor"

\* keywords.split(',').length
SplitLength(chars) == Len(SelectSeq(chars, LAMBDA ch : ch = ",")) + 1

\* Math.round((validCount / total) * 100), for the counts that occur: the
\* quotient is a multiple of 20 up to a rounding error of the division.
Percentage(validCount, total) == (validCount * 100) \div total

\* validatePageSEO(pageId) in browser state W.  The configuration of the
\* page is looked up and not read: the report is about the document alone.
validatePageSEO(W, pageId) ==
    LET D == W.document
        pageConfig == getPageSEOConfig(pageId)
        title == D.title.s
        desc == ContentOf(Matching(D, "meta", "name", Description))
        keywords == ContentOf(Matching(D, "meta", "name", <<"k", "e", "y", "w", "o", "r", "d", "s">>))
        canonical == HrefOf(CanonicalLinks(D), W.location)
        ogTitle == ContentOf(Matching(D, "meta", "property", <<"o", "g", ":", "t", "i", "t", "l", "e">>))
        ogDescription == ContentOf(Matching(D, "meta", "property", <<"o", "g", ":", "d", "e", "s", "c", "r", "i", "p", "t", "i", "o", "n">>))
        ogImage == ContentOf(Matching(D, "meta", "property", <<"o", "g", ":", "i", "m", "a", "g", "e">>))
        isValid == [title |-> Len(title) > 0 /\ Len(title) <= 60,
                    description |-> Len(desc) >= 120 /\ Len(desc) <= 160,
                    keywords |-> Len(keywords) > 0 /\ SplitLength(keywords) >= 3,
                    canonical |-> Len(canonical) > 0,
                    openGraph |-> Len(ogTitle) > 0 /\ Len(ogDescription) > 0 /\ Len(ogImage) > 0]
        validCount == Cardinality({key \in DOMAIN isValid : isValid[key]})
        score == Percentage(validCount, Cardinality(DOMAIN isValid))
    IN  Success([title |-> [value |-> Str(title), isValid |-> Bool(isValid.title)],
                 description |-> [value |-> Str(desc), isValid |-> Bool(isValid.description)],
                 keywords |-> [value |-> Str(keywords), isValid |-> Bool(isValid.keywords)],
                 canonical |-> [value |-> Str(canonical), isValid |-> Bool(isValid.canonical)],
                 openGraph |-> [title |-> Str(ogTitle), description |-> Str(ogDescription),
                                image |-> Str(ogImage), isValid |-> Bool(isValid.openGraph)],
                 overall |-> [score |-> Num(100 * score),
                              status |-> ScoreLabel(score),
                              validCount |-> Num(100 * validCount),
                              totalChecks |-> Num(100 * Cardinality(DOMAIN isValid))]])

(* ------------------------ actions of the health checks ---------------- *)

\* A text of n characters.
TextOf(n) == [i \in 1..n |-> "x"]

\* The documents the health checks are run on: the served head followed by
\* a description of 119, 120, 160 or 161 characters or none, keywords of
\* two or three items or none, a canonical link with or without href or
\* none, the Open Graph triple, its title alone or none of it, and a JSON-LD
\* script or none; the title is empty, of 15 or of 61 characters.
HealthDocuments ==
    { [title |-> Str(title),
       head |-> ServedHead \o description \o keywords \o canonical \o openGraph \o scripts] :
        title \in {<<>>, TextOf(15), TextOf(61)},
        description \in {<<>>} \cup
            {<<Element("meta", [name |-> Str(Description), content |-> Str(TextOf(n))], <<>>)>> :
                n \in {119, 120, 160, 161}},
        keywords \in {<<>>} \cup
            {<<Element("meta", [name |-> Str(<<"k", "e", "y", "w", "o", "r", "d", "s">>), content |-> Str(items)], <<>>)>> :
                items \in {<<"w", "e", "b", "3", ",", " ", "d", "e", "f", "i">>, <<"w", "e", "b", "3", ",", " ", "d", "e", "f", "i", ",", " ", "d", "a", "o">>}},
        canonical \in {<<>>,
                       <<Element("link", [rel |-> Str(<<"c", "a", "n", "o", "n", "i", "c", "a", "l">>)], <<>>)>>,
                       <<createLinkTag(Str(<<"c", "a", "n", "o", "n", "i", "c", "a", "l">>), Str(siteUrl \o UrlServices))>>},
        openGraph \in {<<>>,
                       <<Element("meta", [property |-> Str(<<"o", "g", ":", "t", "i", "t", "l", "e">>), content |-> Str(TextOf(15))], <<>>)>>,
                       <<Element("meta", [property |-> Str(<<"o", "g", ":", "t", "i", "t", "l", "e">>), content |-> Str(TextOf(15))], <<>>),
                         Element("meta", [property |-> Str(<<"o", "g", ":", "d", "e", "s", "c", "r", "i", "p", "t", "i", "o", "n">>), content |-> Str(TextOf(15))], <<>>),
                         Element("meta", [property |-> Str(<<"o", "g", ":", "i", "m", "a", "g", "e">>), content |-> Str(TextOf(15))], <<>>)>>},
        scripts \in {<<>>, <<ForeignScript>>} }

\* The page has loaded with one of these documents.
HealthInit ==
    /\ SITE_STRUCTURE = [pages |-> StaticPages, dynamicPages |-> <<>>]
    /\ lastCall = [op |-> "load"]
    /\ lastResult = Success(Undefined)
    /\ document \in HealthDocuments
    /\ location = [pathname |-> UrlHome]
    /\ history = [pushState |-> TRUE, pushed |-> <<>>]
    /\ sessionStorage = [seo_analytics |-> Null]

GetSEOHealth ==
    /\ lastCall' = [op |-> "getSEOHealth"]
    /\ lastResult' = getSEOHealth(Browser)
    /\ UNCHANGED <<SITE_STRUCTURE, browserVars>>

ValidatePageSEO ==
    \E pageId \in {"services", "nonexistent"} :
        /\ lastCall' = [op |-> "validatePageSEO", arg |-> pageId]
        /\ lastResult' = validatePageSEO(Browser, pageId)
        /\ UNCHANGED <<SITE_STRUCTURE, browserVars>>

HealthNext == GetSEOHealth \/ ValidatePageSEO

\* A document under any sequence of the two health checks.
HealthSpec == HealthInit /\ [][HealthNext]_vars

(* -------------------------- health properties ------------------------- *)

\* The four checks of getSEOHealth, as the report describes them: a meta
\* description, an Open Graph meta, a JSON-LD script and a canonical link
\* that has an href.
FailingHealthChecks(D) ==
    LET Has(tag, attr, test(_)) ==
            \E i \in 1..Len(D.head) :
                /\ D.head[i].tag = tag
                /\ attr \in DOMAIN D.head[i].attrs
                /\ test(D.head[i])
    IN  {check \in {"description", "openGraph", "structuredData", "canonical"} :
            ~ CASE check = "description" ->
                       Has("meta", "name", LAMBDA el : el.attrs["name"].s = Description)
                [] check = "openGraph" ->
                       Has("meta", "property", LAMBDA el : SubSeq(el.attrs["property"].s, 1, 3) = <<"o", "g", ":">>)
                [] check = "structuredData" ->
                       Has("script", "type", LAMBDA el : el.attrs["type"].s = LdJson)
                [] check = "canonical" ->
                       Has("link", "rel", LAMBDA el : /\ el.attrs["rel"].s = <<"c", "a", "n", "o", "n", "i", "c", "a", "l">>
                                                      /\ "href" \in DOMAIN el.attrs)}

\* C22: with n of the four checks failing, the report of getSEOHealth has
\* exactly n issues, the score max(0, 100 - 20 n) and the status 'healthy'
\* for n = 0, 'warning' for n = 1 or 2 and 'critical' for n > 2.
C22_HealthScoreFollowsFailingChecks ==
    lastCall.op = "getSEOHealth"
    => LET n == Cardinality(FailingHealthChecks(document))
           overall == lastResult.value.overall
       IN  /\ lastResult.type = "Success"
           /\ Len(overall.issues) = n
           /\ overall.score = Num(100 * (IF 100 - 20 * n < 0 THEN 0 ELSE 100 - 20 * n))
           /\ overall.status = (CASE n = 0 -> "healthy"
                                  [] n \in {1, 2} -> "warning"
                                  [] n > 2 -> "critical")

\* C22's case: getSEOHealth ran on a document that lacks the description
\* and every JSON-LD script and has Open Graph metas and a canonical link:
\* two issues, score 60, 'warning'.
C22_Witness ==
    /\ lastCall.op = "getSEOHealth"
    /\ FailingHealthChecks(document) = {"description", "structuredData"}
    /\ lastResult.value.overall.issues = <<"Missing meta description", "No structured data found">>
    /\ lastResult.value.overall.score = Num(6000)
    /\ lastResult.value.overall.status = "warning"

\* The content of the first meta of the document whose attribute attr is
\* chars, the empty text when there is none.
MetaContent(D, attr, chars) ==
    LET found == {i \in 1..Len(D.head) :
                     /\ D.head[i].tag = "meta"
                     /\ attr \in DOMAIN D.head[i].attrs
                     /\ D.head[i].attrs[attr].s = chars}
    IN  IF found = {} THEN <<>>
        ELSE D.head[CHOOSE i \in found : \A j \in found : i <= j].attrs["content"].s

\* The five dimensions of validatePageSEO that pass on a document, as the
\* report describes them: a title of 1 to 60 characters, a description of
\* 120 to 160 characters, at least three comma-separated keywords, a
\* canonical link with an href, and an Open Graph title, description and
\* image.
PassingDimensions(D) ==
    LET commas == Cardinality({i \in DOMAIN MetaContent(D, "name", <<"k", "e", "y", "w", "o", "r", "d", "s">>) :
                                  MetaContent(D, "name", <<"k", "e", "y", "w", "o", "r", "d", "s">>)[i] = ","})
    IN  {dimension \in {"title", "description", "keywords", "canonical", "openGraph"} :
            CASE dimension = "title" -> Len(D.title.s) \in 1..60
              [] dimension = "description" ->
                     Len(MetaContent(D, "name", Description)) \in 120..160
              [] dimension = "keywords" -> commas >= 2
              [] dimension = "canonical" -> "canonical" \notin FailingHealthChecks(D)
              [] dimension = "openGraph" ->
                     \A name \in {<<"o", "g", ":", "t", "i", "t", "l", "e">>, <<"o", "g", ":", "d", "e", "s", "c", "r", "i", "p", "t", "i", "o", "n">>, <<"o", "g", ":", "i", "m", "a", "g", "e">>} :
                         MetaContent(D, "property", name) # <<>>}

\* C23: with k of the five dimensions passing, validatePageSEO reports the
\* score 20 k and the label 'excellent' for a score of 80 or more, 'good'
\* for 60, 'needs-improvement' for 40 and 'poor' below; each dimension is
\* reported valid exactly when it passes, whatever the other four are.
C23_ScoreIsTwentyPerPassingDimension ==
    lastCall.op = "validatePageSEO"
    => LET passing == PassingDimensions(document)
           k == Cardinality(passing)
           report == lastResult.value
       IN  /\ lastResult.type = "Success"
           /\ report.overall.score = Num(100 * 20 * k)
           /\ report.overall.validCount = Num(100 * k)
           /\ report.overall.status = (CASE k >= 4 -> "excellent"
                                         [] k = 3 -> "good"
                                         [] k = 2 -> "needs-improvement"
                                         [] k < 2 -> "poor")
           /\ \A dimension \in {"title", "description", "keywords", "canonical", "openGraph"} :
                  report[dimension].isValid = Bool(dimension \in passing)

\* C23's case: validatePageSEO ran on a document whose title, canonical
\* link and Open Graph triple pass, whose description has 119 characters
\* and whose keywords are two: score 60, 'good'.
C23_Witness ==
    /\ lastCall.op = "validatePageSEO"
    /\ PassingDimensions(document) = {"title", "canonical", "openGraph"}
    /\ Len(MetaContent(document, "name", Description)) = 119
    /\ MetaContent(document, "name", <<"k", "e", "y", "w", "o", "r", "d", "s">>) = <<"w", "e", "b", "3", ",", " ", "d", "e", "f", "i">>
    /\ lastResult.value.overall.score = Num(6000)
    /\ lastResult.value.overall.status = "good"

(* ------------------------- page change properties --------------------- *)

\* text ends with part.
HasSuffix(text, part) ==
    Len(text) >= Len(part) /\ SubSeq(text, Len(text) - Len(part) + 1, Len(text)) = part

\* part occurs in text.
Contains(text, part) ==
    \E i \in 1..(Len(text) - Len(part) + 1) : SubSeq(text, i, i + Len(part) - 1) = part

\* The JSON-LD scripts of a head whose document has this "@type".
SchemasOfType(head, type) ==
    SelectSeq(head, LAMBDA el :
        /\ el.tag = "script"
        /\ Contains(el.text, <<"\"", "@", "t", "y", "p", "e", "\"", ":", " ", "\"">> \o type \o <<"\"">>))

\* No tag group and no schema generator fails during the call.
ComponentsUnharmed(call) == call.fault.tags = {} /\ call.fault.generators = {}

\* C24: updatePageSEO('services'), called on the document that a successful
\* updatePageSEO('home') left, succeeds; the title is then 'Our Services -
\* CryptoVersus.io', the head holds exactly one canonical link and its href
\* ends in '/services', the schema count is not zero, an Organization and
\* an ItemList document are among the marked scripts, and no marked script
\* holds a WebSite document.
C24_PageChangeHomeToServices ==
    [][ /\ SeoSucceeded(lastCall, lastResult) /\ lastCall.arg = "home"
        /\ SeoCalled(lastCall') /\ lastCall'.arg = "services"
        /\ ComponentsUnharmed(lastCall')
        => LET marked == SelectSeq(document'.head, IsMarkedScript)
               canonicals == SelectSeq(document'.head, LAMBDA el :
                                 el.tag = "link" /\ "rel" \in DOMAIN el.attrs
                                 /\ el.attrs["rel"].s = <<"c", "a", "n", "o", "n", "i", "c", "a", "l">>)
           IN  /\ lastResult'.type = "Success"
               /\ document'.title.s = <<"O", "u", "r", " ", "S", "e", "r", "v", "i", "c", "e", "s", " ", "-", " ", "C", "r", "y", "p", "t", "o", "V", "e", "r", "s", "u", "s", ".", "i", "o">>
               /\ Len(canonicals) = 1
               /\ HasSuffix(canonicals[1].attrs["href"].s, <<"/", "s", "e", "r", "v", "i", "c", "e", "s">>)
               /\ lastResult'.value.schemas.n > 0
               /\ lastResult'.value.schemas.n = 100 * Len(marked)
               /\ SchemasOfType(marked, <<"O", "r", "g", "a", "n", "i", "z", "a", "t", "i", "o", "n">>) # <<>>
               /\ SchemasOfType(marked, <<"I", "t", "e", "m", "L", "i", "s", "t">>) # <<>>
               /\ SchemasOfType(marked, <<"W", "e", "b", "S", "i", "t", "e">>) = <<>> ]_vars

\* C24's case: updatePageSEO('home') and then updatePageSEO('services') have
\* succeeded: the two page views are stored in that order, the second under
\* the title of the services page, and the head holds three schema scripts.
C24_Witness ==
    /\ SeoSucceeded(lastCall, lastResult)
    /\ lastCall.arg = "services"
    /\ lastCall.fault = NoFault
    /\ Len(StoredPageViews(sessionStorage)) = 2
    /\ StoredPageViews(sessionStorage)[1].pageId = "home"
    /\ StoredPageViews(sessionStorage)[1].title = PAGE_SEO_CONFIG.home.title
    /\ StoredPageViews(sessionStorage)[2].pageId = "services"
    /\ StoredPageViews(sessionStorage)[2].title.s = <<"O", "u", "r", " ", "S", "e", "r", "v", "i", "c", "e", "s", " ", "-", " ", "C", "r", "y", "p", "t", "o", "V", "e", "r", "s", "u", "s", ".", "i", "o">>
    /\ Len(SelectSeq(document.head, IsMarkedScript)) = 3
    /\ Len(SchemasOfType(document.head, <<"I", "t", "e", "m", "L", "i", "s", "t">>)) = 1

(* ------------------------------ idempotence --------------------------- *)

\* C25: updatePageSEO, updatePageSchemas, addPageToSitemap and
\* removePageFromSitemap are idempotent: the same call made again right
\* after leaves the document, the location, the history, the stored page
\* views and the sitemap registry as the first call left them.
C25_EveryOperationIdempotent ==
    [][ CASE lastCall'.op = "updatePageSEO" ->
                 updatePageSEO(Browser', lastCall'.arg, lastCall'.fault).W = Browser'
          [] lastCall'.op = "updatePageSchemas" ->
                 updatePageSchemas(document', lastCall'.arg, lastCall'.failing).D = document'
          [] lastCall'.op = "addPageToSitemap" ->
                 addPageToSitemap(SITE_STRUCTURE', lastCall'.arg).S = SITE_STRUCTURE'
          [] lastCall'.op = "removePageFromSitemap" ->
                 removePageFromSitemap(SITE_STRUCTURE', lastCall'.arg).S = SITE_STRUCTURE'
          [] OTHER -> TRUE ]_vars

(* -------------------------- best-effort metadata ---------------------- *)

\* C26: when updateMetaTags is called on a document that carries SEO tags
\* and the generation of a tag group fails, the document still carries SEO
\* tags when the call has returned its Error.
C26_FailureLeavesSeoTags ==
    [][ /\ lastCall'.op = "updateMetaTags"
        /\ lastCall'.failing # {}
        /\ SeoTagsIn(document.head) # <<>>
        => /\ lastResult'.type = "Error"
           /\ SeoTagsIn(document'.head) # <<>> ]_vars

(* ------------------------ order inside updatePageSEO ------------------ *)

\* C27: updatePageSEO runs updateMetaTags, then updatePageSchemas, then the
\* history update, then the page view.  When updateMetaTags fails, the
\* document is as updateMetaTags left it and the marked schema scripts of
\* the page before are still there; when either component fails, history,
\* location and the stored page views are as they were.  When all of it
\* succeeds, the page view that is stored carries the title that
\* updateMetaTags set, the count that updatePageSchemas returned and the url
\* that the history update left.
C27_StepsRunInOrder ==
    [][ SeoCalled(lastCall')
        => LET meta == updateMetaTags(document, lastCall'.arg, lastCall'.fault.tags)
               schema == updatePageSchemas(meta.D, lastCall'.arg, lastCall'.fault.generators)
               views == StoredPageViews(sessionStorage')
           IN  /\ meta.result.type = "Error"
                      => /\ document' = meta.D
                         /\ SelectSeq(document'.head, IsMarkedScript)
                                = SelectSeq(document.head, IsMarkedScript)
               /\ (meta.result.type = "Error" \/ schema.result.type = "Error")
                      => /\ lastResult'.type = "Error"
                         /\ history' = history
                         /\ location' = location
                         /\ sessionStorage' = sessionStorage
               /\ (lastResult'.type = "Success" /\ lastCall'.fault = NoFault)
                      => /\ document' = schema.D
                         /\ views = Append(StoredPageViews(sessionStorage), views[Len(views)])
                         /\ views[Len(views)].title = meta.D.title
                         /\ views[Len(views)].seoMetaTags = meta.result.value
                         /\ views[Len(views)].seoSchemas = schema.result.value
                         /\ views[Len(views)].url = Href(location')
                         /\ history.pushState
                                => location'.pathname = CanonicalPathOf(lastCall'.arg) ]_vars

\* C27's case: after a successful updatePageSEO('home'), updatePageSEO(
\* 'services') has failed on its meta tags: the title is already that of
\* the services page, the three schema scripts of the home page are still
\* in the head, and the one page view stored and the location are home's.
C27_Witness ==
    /\ SeoCalled(lastCall)
    /\ lastCall.arg = "services"
    /\ lastCall.fault.tags # {}
    /\ lastResult.type = "Error"
    /\ document.title = PAGE_SEO_CONFIG.services.title
    /\ SeoTagsIn(document.head) = <<>>
    /\ Len(SelectSeq(document.head, IsMarkedScript)) = 3
    /\ SchemasOfType(document.head, <<"W", "e", "b", "S", "i", "t", "e">>) # <<>>
    /\ Len(StoredPageViews(sessionStorage)) = 1
    /\ StoredPageViews(sessionStorage)[1].pageId = "home"
    /\ location.pathname = UrlHome

(* ----------------------------- entries' urls --------------------------- *)

\* C28: in every state of the registry, every static and dynamic entry has
\* a url that is not empty; validateSitemap therefore succeeds on it and
\* reports no 'Missing URL'.
C28_EveryEntryHasUrl ==
    LET allPages == allPagesOf(SITE_STRUCTURE)
        report == validateSitemap(SITE_STRUCTURE)
    IN  /\ \A i \in 1..Len(allPages) :
               allPages[i].url.t = "string" /\ Len(allPages[i].url.s) > 0
        /\ report.type = "Success"
        /\ ~HasMessage(report.value.errors, "Missing URL")
        /\ lastCall.op = "validateSitemap" => lastResult = report

\* C28's case: an addPageToSitemap with an empty url has been refused on a
\* registry that holds two dynamic entries.
C28_Witness ==
    /\ lastCall.op = "addPageToSitemap"
    /\ lastCall.arg # Undefined
    /\ lastCall.arg.url = Str(<<>>)
    /\ lastResult.type = "Error"
    /\ Len(SITE_STRUCTURE.dynamicPages) = 2
    /\ validateSitemap(SITE_STRUCTURE).value.totalPages = 8

(* ----------------------- actions of the page views --------------------- *)

\* At most this many calls of trackPageView are made in the runs explored.
MaxTracked == 52

\* The calls of trackPageView made so far; the caller numbers its calls and
\* passes the number along as additional data.
Tracked == IF "seq" \in DOMAIN lastCall THEN lastCall.seq ELSE 0

\* One call of AnalyticsUtils.trackPageView.  The first calls, as long as
\* the stored list stays two short of its limit, are views of the home page
\* that complete; the later ones are of either page and may throw.
TrackPageView ==
    \E pageId \in {"home", "services"}, throws \in BOOLEAN :
        LET seq == Tracked + 1
            r == trackPageView(Browser, pageId, [seq |-> Num(100 * seq)], throws)
        IN  /\ seq <= MaxTracked
            /\ seq <= KeptPageViews - 2 => (pageId = "home" /\ ~throws)
            /\ sessionStorage' = r.W.sessionStorage
            /\ lastCall' = [op |-> "trackPageView", arg |-> pageId, seq |-> seq]
            /\ lastResult' = r.result
            /\ UNCHANGED <<SITE_STRUCTURE, document, location, history>>

TrackInit ==
    /\ SITE_STRUCTURE = [pages |-> StaticPages, dynamicPages |-> <<>>]
    /\ lastCall = [op |-> "load"]
    /\ lastResult = Success(Undefined)
    /\ PageLoaded(ServedHead, TRUE)

TrackNext == TrackPageView

\* The session storage under any sequence of calls of trackPageView.
TrackSpec == TrackInit /\ [][TrackNext]_vars

(* ------------------------- page view properties ----------------------- *)

\* C29: the 'seo_analytics' record never holds more than 50 page views, and
\* they are the most recent ones in call order: a call that completes adds
\* its page view at the end and, when 50 were stored, drops the oldest.
C29_KeepsTheFiftyMostRecent ==
    [][ lastCall'.op = "trackPageView" /\ lastResult'.type = "Success"
        => LET before == StoredPageViews(sessionStorage)
               after == StoredPageViews(sessionStorage')
               new == lastResult'.value
           IN  /\ Len(after) <= 50
               /\ new.pageId = lastCall'.arg
               /\ new.seq = Num(100 * lastCall'.seq)
               /\ after = (IF Len(before) < 50 THEN before ELSE Tail(before)) \o <<new>>
               /\ \A i, j \in 1..Len(after) : i < j => after[i].seq.n < after[j].seq.n ]_vars

\* C29's case: 52 calls have completed; the record holds the page views of
\* the calls 3 to 52 and those of the first two calls are gone.
C29_Witness ==
    /\ lastCall.op = "trackPageView"
    /\ lastResult.type = "Success"
    /\ lastCall.seq = 52
    /\ Len(StoredPageViews(sessionStorage)) = 50
    /\ \A i \in 1..50 : StoredPageViews(sessionStorage)[i].seq = Num(100 * (i + 2))

(* --------------------- actions of the six pages ------------------------ *)

\* What a prior document may hold against a later health report: a
\* canonical link without href and a description meta without content.
BrokenHead ==
    << Element("link", [rel |-> Str(<<"c", "a", "n", "o", "n", "i", "c", "a", "l">>)], <<>>),
       Element("meta", [name |-> Str(Description)], <<>>) >>

\* The page as served, with the elements of an earlier rendering or with
\* broken ones, in a browser with or without history.pushState.
PagesInit ==
    /\ SITE_STRUCTURE = [pages |-> StaticPages, dynamicPages |-> <<>>]
    /\ lastCall = [op |-> "load"]
    /\ lastResult = Success(Undefined)
    /\ \E head \in {ServedHead \o StaleHead, ServedHead \o BrokenHead}, pushStateThere \in BOOLEAN :
           PageLoaded(head, pushStateThere)

\* One call of updatePageSEO for one of the six pages, with every schema
\* generator working or with generateOrganizationSchema failing.
UpdateConfiguredPage ==
    \E pageId \in ConfiguredPages,
       fault \in {NoFault, Fault({}, {"generateOrganizationSchema"}, FALSE, FALSE)} :
        LET r == updatePageSEO(Browser, pageId, fault)
        IN  /\ Len(StoredPageViews(sessionStorage)) < MaxUpdates
            /\ document' = r.W.document
            /\ location' = r.W.location
            /\ history' = r.W.history
            /\ sessionStorage' = r.W.sessionStorage
            /\ lastCall' = [op |-> "updatePageSEO", arg |-> pageId, fault |-> fault]
            /\ lastResult' = r.result
            /\ UNCHANGED SITE_STRUCTURE

PagesNext == UpdateConfiguredPage

\* The browser under any sequence of calls of updatePageSEO for the six
\* pages.
PagesSpec == PagesInit /\ [][PagesNext]_vars

(* ---------------------- health after a page change --------------------- *)

\* C30: for each of the six pages, when no schema generator fails, the
\* report of getSEOHealth right after a successful updatePageSEO(pageId)
\* has no issues, score 100 and status 'healthy': the description, the Open
\* Graph tags, a structured-data script and the canonical link are there.
C30_HealthyAfterPageChange ==
    (SeoSucceeded(lastCall, lastResult) /\ lastCall.arg \in ConfiguredPages
        /\ lastCall.fault.generators = {})
    => LET health == getSEOHealth(Browser).value
       IN  /\ health.overall.issues = <<>>
           /\ health.overall.score = Num(10000)
           /\ health.overall.status = "healthy"
           /\ health.metaTags.hasDescription = Bool(TRUE)
           /\ health.metaTags.hasOG = Bool(TRUE)
           /\ health.schemas.count.n >= 100
           /\ health.navigation.canonicalUrl = Str(siteUrl \o CanonicalPathOf(lastCall.arg))

\* C30's case: the page changed to the FAQ page, after an earlier change,
\* with every generator working; the report is healthy and counts the two
\* schemas of the page.
C30_Witness ==
    /\ SeoSucceeded(lastCall, lastResult)
    /\ lastCall.arg = "faqs"
    /\ lastCall.fault = NoFault
    /\ Len(StoredPageViews(sessionStorage)) = 2
    /\ getSEOHealth(Browser).value.overall.score = Num(10000)
    /\ Len(SelectSeq(document.head, IsMarkedScript)) = 2

====
